---- MODULE Spec2Model ----
(***************************************************************************)
(* ViralCutsAI clip-processing pipeline: segment selection                 *)
(* (server/gemini.ts), cutting and subtitle burn-in                        *)
(* (server/video-processor.ts), subtitle normalisation and building        *)
(* (server/subtitles.ts) and the route that chains them                    *)
(* (server/routes.ts, POST /api/cuts/:cutId/process).                      *)
(*                                                                         *)
(* Times are whole seconds in segment selection (the oracle is asked for   *)
(* whole seconds, gemini.ts:152).                                          *)
(***************************************************************************)
EXTENDS Integers, Sequences, FiniteSets, TLC

VARIABLES
  selPc,        \* position inside analyzeVideoForCuts
  duration,     \* value returned by getVideoDurationFixed
  response,     \* what the oracle answered (response.text, classified)
  selResult,    \* the array analyzeVideoForCuts returned
  selError,     \* why analyzeVideoForCuts threw ("" when it did not)
  srtPc,        \* how many times sanitizeSrt has been applied to srtText
  srtText,      \* the raw subtitle text handed to sanitizeSrt
  srtOnce,      \* sanitizeSrt(srtText)
  srtTwice,     \* sanitizeSrt(sanitizeSrt(srtText))
  buildPc,      \* which subtitle builder has been called ("input" before)
  buildIn,      \* the builders' arguments
  buildOut,     \* the script the builder returned and the lines it grouped
  extPc,        \* whether the engine's JSON has been read ("json" before)
  extJson,      \* what JSON.parse makes of the engine's output file
  extWords,     \* the WordTiming list transcribeWordsWhisperCpp returns
  invPc,        \* where an awaited external process stands
  invCall,      \* the call site that started it, with its options
  invTool,      \* what the external tool does
  invElapsed,   \* minutes since the process was started
  stored,       \* the video_cuts table: stored[id] is the segment or NoCut
  editReply,    \* the status of the last PUT /api/cuts/:cutId reply (0: none)
  now,          \* Date.now()
  files,        \* the paths that exist on disk
  pc,           \* pc[r]: where run r stands
  cutArgs,      \* cutArgs[r]: the arguments of r's cutVideo call
  cutPath,      \* cutPath[r]: cutVideo's outputPath
  cutReturn,    \* cutReturn[r]: what r's cutVideo call returned, and whether
                \* that path existed when it returned
  error,        \* error[r]: the error r's call threw ("" when none)
  spawned,      \* spawned[r]: external processes r has started
  wrote,        \* wrote[r]: the paths r's calls have written
  lastTool,     \* lastTool[r]: how the last external process r awaited
                \* ended ("" before the first)
  keepSrt,      \* process.env.KEEP_SRT === '1'
  env,          \* process.env: the tool overrides and the model path
  toolFiles,    \* the tool and model paths that exist on disk
  resolved,     \* the last resolver call and what it returned
  routeOutput,  \* routeOutput[r]: the route's outputPath variable
  audPath,      \* audPath[r]: wavPath of the transcription call
  transError,   \* transError[r]: the error r's transcription call threw
  routeWords,   \* routeWords[r]: the route's words
  assContent,   \* assContent[r]: the route's assContent
  rawSubtitles, \* rawSubtitles[r]: the route's rawSubtitles
  subtitles,    \* subtitles[r]: the route's subtitles (<<>> is "")
  burnArgs,     \* burnArgs[r]: the arguments of r's addSubtitlesToVideo call
  subPath,      \* subPath[r]: srtPath of addSubtitlesToVideo
  useAss,       \* useAss[r]: useAss of addSubtitlesToVideo
  burnPath,     \* burnPath[r]: outputPath of addSubtitlesToVideo
  burnReturn,   \* burnReturn[r]: what r's addSubtitlesToVideo call returned
  processed     \* processed[r]: the record given to createProcessedCut

selVars == <<selPc, duration, response, selResult, selError>>
srtVars == <<srtPc, srtText, srtOnce, srtTwice>>
buildVars == <<buildPc, buildIn, buildOut>>
extVars == <<extPc, extJson, extWords>>
invVars == <<invPc, invCall, invTool, invElapsed>>
editVars == <<stored, editReply>>
fsVars == <<now, files>>
cutVars ==
  <<pc, cutArgs, cutPath, cutReturn, error, spawned, wrote, lastTool>>
envVars == <<keepSrt, env, toolFiles>>
resVars == <<resolved>>
routeVars ==
  <<routeOutput, routeWords, assContent, rawSubtitles, subtitles, processed>>
transVars == <<audPath, transError>>
burnVars == <<burnArgs, subPath, useAss, burnPath, burnReturn>>
pipeVars == <<envVars, resVars, routeVars, transVars, burnVars>>

(***************************************************************************)
(* Bounds of the model                                                     *)
(***************************************************************************)
MaxDuration == 310
MaxProposals == 2
MaxBlocks == 2
MaxClock == 2
MaxToolFiles == 2
MaxWords == 3
MaxSegments == 2
MaxElapsed == 16

(***************************************************************************)
(* Segment selection: gemini.ts, analyzeVideoForCuts                        *)
(***************************************************************************)
MinCutSeconds == 60
MaxCutSeconds == 120
FallbackWindow == 90

Durations == 0..MaxDuration

\* Proposals the oracle may return: starts and lengths chosen around the
\* limits the filter tests.
ProposalStarts == {10, 200}
ProposalLengths == {59, 60, 90, 120, 121}
Proposals ==
  { [startTime |-> s, endTime |-> s + l, description |-> "ai"] :
      s \in ProposalStarts, l \in ProposalLengths }

ProposalLists == UNION { [1..n -> Proposals] : n \in 0..MaxProposals }

\* response.text as the parser sees it.
\*   "nomatch"  : no [...] substring                       (line 164-167)
\*   "badjson"  : [...] present, JSON.parse throws         (line 169)
\*   "nullitem" : parses to an array holding null, so cut.endTime throws
\*   "array"    : parses to an array of proposal objects
ResponseKinds == {"nomatch", "badjson", "nullitem", "array"}
Responses ==
  { [kind |-> k, cuts |-> <<>>] : k \in ResponseKinds \ {"array"} }
    \cup { [kind |-> "array", cuts |-> c] : c \in ProposalLists }

NoResponse == [kind |-> "none", cuts |-> <<>>]

\* The filter predicate of line 171-174, with the end test dropped.
isValidCutNoEndTest(cut, d) ==
  LET cutDuration == cut.endTime - cut.startTime
  IN  cutDuration >= MinCutSeconds /\ cutDuration <= MaxCutSeconds

\* The filter predicate of line 171-174.
isValidCut(cut, d) ==
  LET cutDuration == cut.endTime - cut.startTime
  IN  cutDuration >= MinCutSeconds /\ cutDuration <= MaxCutSeconds
        /\ cut.endTime <= d

\* cuts.filter(...)
validCuts(cuts, d) == SelectSeq(cuts, LAMBDA cut : isValidCut(cut, d))

\* Math.floor(duration / 90) replaced by a ceiling.
numCutsCeil(d) == (d + FallbackWindow - 1) \div FallbackWindow

\* Math.floor(duration / 90)
numCuts(d) == d \div FallbackWindow

Min(a, b) == IF a <= b THEN a ELSE b
Max(a, b) == IF a >= b THEN a ELSE b

\* The loop of lines 179-189, from index i with fallbackCuts = acc.
RECURSIVE fallbackLoop(_, _, _)
fallbackLoop(i, d, acc) ==
  IF i >= numCuts(d) THEN acc
  ELSE LET start == i * FallbackWindow
           end == Min(start + FallbackWindow, d)
       IN  IF end - start >= MinCutSeconds
           THEN fallbackLoop(i + 1, d,
                  Append(acc, [startTime |-> start, endTime |-> end,
                               description |-> "Segmento " \o ToString(i + 1)]))
           ELSE fallbackLoop(i + 1, d, acc)

fallbackCuts(d) == fallbackLoop(0, d, <<>>)

\* Lines 171-193 with the fallback appended to the valid proposals.
selectCutsAlwaysFallback(cuts, d) == validCuts(cuts, d) \o fallbackCuts(d)

\* Lines 171-193: the value returned for a parsed array.
selectCuts(cuts, d) ==
  IF Len(validCuts(cuts, d)) = 0 THEN fallbackCuts(d) ELSE validCuts(cuts, d)

\* getVideoDurationFixed (lines 41-65) as awaited at line 94.
GetVideoDurationFixed ==
  /\ selPc = "start"
  /\ \/ \E d \in Durations :
          /\ duration' = d
          /\ selPc' = "probed"
          /\ selError' = ""
     \/ \E why \in {"probe-tool-missing", "probe-failed"} :
          /\ selPc' = "thrown"
          /\ selError' = why
          /\ UNCHANGED duration
  /\ UNCHANGED <<response, selResult>>

\* Lines 100-162: read the file, ask the oracle.
GenerateContent ==
  /\ selPc = "probed"
  /\ \/ \E r \in Responses :
          /\ response' = r
          /\ selPc' = "responded"
          /\ selError' = ""
     \/ \E why \in {"read-failed", "oracle-call-failed"} :
          /\ selPc' = "thrown"
          /\ selError' = why
          /\ UNCHANGED response
  /\ UNCHANGED <<duration, selResult>>

\* Lines 164-193, throwing when no segment at all is left to return.
ParseAndSelectThrowsOnEmpty ==
  /\ selPc = "responded"
  /\ IF response.kind = "array" /\ Len(selectCuts(response.cuts, duration)) > 0
     THEN /\ selResult' = selectCuts(response.cuts, duration)
          /\ selPc' = "returned"
          /\ selError' = ""
     ELSE /\ selPc' = "thrown"
          /\ selError' = "format"
          /\ UNCHANGED selResult
  /\ UNCHANGED <<duration, response>>

\* Lines 164-193: parse, filter, fall back.
ParseAndSelect ==
  /\ selPc = "responded"
  /\ IF response.kind = "array"
     THEN /\ selResult' = selectCuts(response.cuts, duration)
          /\ selPc' = "returned"
          /\ selError' = ""
     ELSE /\ selPc' = "thrown"
          /\ selError' = "format"
          /\ UNCHANGED selResult
  /\ UNCHANGED <<duration, response>>

SelIdle ==
  /\ selPc = "start"
  /\ duration = 0
  /\ response = NoResponse
  /\ selResult = <<>>
  /\ selError = ""

(***************************************************************************)
(* Runs, the clock and the disk                                            *)
(*                                                                         *)
(* A run is one request being served.  Runs interleave at every await; the *)
(* synchronous stretch between two awaits is one step.  All runs write to  *)
(* the same directory (routes.ts: processedDir).                           *)
(***************************************************************************)
Runs == {"r1", "r2"}

\* A path: what the file is, the timestamp in its name, its extension.
Path(kind, ts, ext) == [kind |-> kind, ts |-> ts, ext |-> ext]
NoPath == Path("none", 0, "")
UploadedVideo == Path("upload", 0, "mp4")
MissingVideo == Path("upload", 1, "mp4")

NoArgs == [inputPath |-> NoPath, startTime |-> 0, endTime |-> 0, format |-> ""]
NoReturn == [path |-> NoPath, existed |-> FALSE]
NoProcessed == [outputPath |-> NoPath, subtitles |-> {}, format |-> ""]
NoBurnReturn ==
  [path |-> NoPath, existed |-> FALSE, inputLeft |-> FALSE,
   subtitleLeft |-> FALSE]
NoBurnArgs == [videoPath |-> NoPath, subtitlesContent |-> <<>>]
NoResolved == [tool |-> "", path |-> ""]

CallsIdle ==
  /\ now = 0
  /\ pc = [r \in Runs |-> "idle"]
  /\ cutArgs = [r \in Runs |-> NoArgs]
  /\ cutPath = [r \in Runs |-> NoPath]
  /\ cutReturn = [r \in Runs |-> NoReturn]
  /\ error = [r \in Runs |-> ""]
  /\ spawned = [r \in Runs |-> 0]
  /\ wrote = [r \in Runs |-> {}]
  /\ lastTool = [r \in Runs |-> ""]
  /\ transError = [r \in Runs |-> ""]
  /\ burnArgs = [r \in Runs |-> NoBurnArgs]
  /\ burnReturn = [r \in Runs |-> NoBurnReturn]
  /\ resolved = NoResolved
  /\ routeOutput = [r \in Runs |-> NoPath]
  /\ audPath = [r \in Runs |-> NoPath]
  /\ routeWords = [r \in Runs |-> <<>>]
  /\ assContent = [r \in Runs |-> <<>>]
  /\ rawSubtitles = [r \in Runs |-> <<>>]
  /\ subtitles = [r \in Runs |-> <<>>]
  /\ subPath = [r \in Runs |-> NoPath]
  /\ useAss = [r \in Runs |-> FALSE]
  /\ burnPath = [r \in Runs |-> NoPath]
  /\ processed = [r \in Runs |-> NoProcessed]

RunsIdle == files = {UploadedVideo} /\ CallsIdle

(***************************************************************************)
(* Binary resolvers: resolveFFmpeg (video-processor.ts, subtitles.ts,      *)
(* ai-renderer.ts), resolveBinary (gemini.ts), resolveFFprobe              *)
(* (ai-renderer.ts, tts.ts), resolvePiper (tts.ts), resolveWhisperCpp      *)
(* (subtitles.ts)                                                          *)
(***************************************************************************)
Unset == ""          \* an environment variable that is not set
Absent == "<null>"   \* the null that resolveWhisperCpp returns

\* if (envPath) candidates.push(envPath)
overrideOf(envPath) == IF envPath # Unset THEN <<envPath>> ELSE <<>>

\* The fixed installation paths of ffmpeg, ffprobe and piper.
commonLocations(bin) ==
  IF bin = "piper"
  THEN << "C:/ProgramData/chocolatey/bin/piper.exe", "C:/piper/piper.exe",
          "C:/Program Files/piper/piper.exe",
          "C:/Program Files (x86)/piper/piper.exe" >>
  ELSE << "C:/ProgramData/chocolatey/bin/" \o bin \o ".exe",
          "C:/ffmpeg/bin/" \o bin \o ".exe",
          "C:/Program Files/ffmpeg/bin/" \o bin \o ".exe",
          "C:/Program Files (x86)/ffmpeg/bin/" \o bin \o ".exe" >>

\* gemini.ts lines 23-29: the same list with one more chocolatey path.
geminiLocations(bin) ==
  << "C:/ProgramData/chocolatey/bin/" \o bin \o ".exe",
     "C:/ProgramData/chocolatey/lib/ffmpeg/tools/ffmpeg/bin/" \o bin \o ".exe",
     "C:/ffmpeg/bin/" \o bin \o ".exe",
     "C:/Program Files/ffmpeg/bin/" \o bin \o ".exe",
     "C:/Program Files (x86)/ffmpeg/bin/" \o bin \o ".exe" >>

\* subtitles.ts lines 29-32: the candidates after the override.
whisperLocations ==
  << "./bin/whisper.cpp/main.exe", "./whisper/main.exe", "whisper", "main" >>

\* for (const c of candidates) if (fs.existsSync(c)) return c; the value
\* after the loop is orElse.
RECURSIVE firstExisting(_, _, _)
firstExisting(candidates, disk, orElse) ==
  IF candidates = <<>> THEN orElse
  ELSE IF Head(candidates) \in disk THEN Head(candidates)
       ELSE firstExisting(Tail(candidates), disk, orElse)

resolveFFmpeg(e, disk) ==
  firstExisting(overrideOf(e.FFMPEG_PATH) \o commonLocations("ffmpeg")
                  \o <<"ffmpeg">>, disk, "ffmpeg")

resolveFFprobe(e, disk) ==
  firstExisting(overrideOf(e.FFPROBE_PATH) \o commonLocations("ffprobe")
                  \o <<"ffprobe">>, disk, "ffprobe")

resolvePiper(e, disk) ==
  firstExisting(overrideOf(e.PIPER_PATH) \o commonLocations("piper")
                  \o <<"piper">>, disk, "piper")

resolveBinary(bin, e, disk) ==
  firstExisting(overrideOf(IF bin = "ffprobe" THEN e.FFPROBE_PATH
                           ELSE e.FFMPEG_PATH)
                  \o geminiLocations(bin) \o <<bin>>, disk, bin)

\* Lines 25-38 of subtitles.ts with a bare name returned after the loop.
resolveWhisperCppOrBareName(e, disk) ==
  firstExisting(overrideOf(e.WHISPER_CPP_PATH) \o whisperLocations, disk,
                "whisper")

\* Lines 25-38 of subtitles.ts: null after the loop.
resolveWhisperCpp(e, disk) ==
  firstExisting(overrideOf(e.WHISPER_CPP_PATH) \o whisperLocations, disk,
                Absent)

\* Lines 45-47 and 138-140 without fs.existsSync(modelPath).
whisperConfiguredNoModelFileTest(e, disk) ==
  /\ resolveWhisperCpp(e, disk) # Absent
  /\ e.WHISPER_CPP_MODEL # Unset

\* Lines 45-47 and 138-140 of subtitles.ts, negated: the engine and its
\* model are there.
whisperConfigured(e, disk) ==
  /\ resolveWhisperCpp(e, disk) # Absent
  /\ e.WHISPER_CPP_MODEL # Unset
  /\ e.WHISPER_CPP_MODEL \in disk

\* A deployment with nothing overridden: the tools are found on the PATH,
\* the speech engine is ./whisper/main.exe with its model.
ModelFile == "./models/ggml-small.bin"
PlainEnv ==
  [ FFMPEG_PATH |-> Unset, FFPROBE_PATH |-> Unset, PIPER_PATH |-> Unset,
    WHISPER_CPP_PATH |-> Unset, WHISPER_CPP_MODEL |-> ModelFile ]
PlainTools == {"./whisper/main.exe", ModelFile}

EnvIdle ==
  /\ keepSrt = FALSE
  /\ env = PlainEnv
  /\ toolFiles = PlainTools

\* Time passes between two steps.
Tick ==
  /\ now < MaxClock
  /\ now' = now + 1
  /\ UNCHANGED <<files, cutVars>>

vars == <<selVars, srtVars, buildVars, extVars, invVars, editVars, fsVars, cutVars, pipeVars>>

SrtIdle ==
  /\ srtPc = "input"
  /\ srtText = <<>>
  /\ srtOnce = <<>>
  /\ srtTwice = <<>>

\* No builder call: nothing handed to a subtitle builder, nothing returned.
NoBuildInput == [words |-> <<>>, tokens |-> <<>>, duration |-> 0, vertical |-> FALSE]
NoBuildOutput == [builder |-> "", ass |-> <<>>, lines |-> <<>>]
BuildIdle ==
  /\ buildPc = "input"
  /\ buildIn = NoBuildInput
  /\ buildOut = NoBuildOutput

\* No engine output read yet.
NoJson == [parses |-> FALSE, segments |-> <<>>]
ExtIdle ==
  /\ extPc = "json"
  /\ extJson = NoJson
  /\ extWords = <<>>

\* No external process awaited.
NoCall == [site |-> "", tool |-> "", timeout |-> 0]
InvIdle ==
  /\ invPc = "idle"
  /\ invCall = NoCall
  /\ invTool = ""
  /\ invElapsed = 0

\* The video_cuts table with no row.
CutIds == {"c1"}
NoCut == [startTime |-> 0, endTime |-> 0, description |-> "<none>"]
EditIdle ==
  /\ stored = [id \in CutIds |-> NoCut]
  /\ editReply = 0

SelInit == SelIdle /\ SrtIdle /\ BuildIdle /\ ExtIdle /\ InvIdle /\ EditIdle /\ RunsIdle /\ EnvIdle

SelNext ==
  \/ GetVideoDurationFixed /\ UNCHANGED <<srtVars, buildVars, extVars, invVars, editVars, fsVars, cutVars, pipeVars>>
  \/ GenerateContent /\ UNCHANGED <<srtVars, buildVars, extVars, invVars, editVars, fsVars, cutVars, pipeVars>>
  \/ ParseAndSelect /\ UNCHANGED <<srtVars, buildVars, extVars, invVars, editVars, fsVars, cutVars, pipeVars>>

SpecSelect == SelInit /\ [][SelNext]_vars

(***************************************************************************)
(* Claims about segment selection                                          *)
(***************************************************************************)
\* The valid proposals of the oracle's answer, by position, spelled from
\* the rule itself (60 <= end - start <= 120, end <= sourceDuration).
ValidPositions ==
  { i \in 1..Len(response.cuts) :
      /\ response.cuts[i].endTime - response.cuts[i].startTime >= 60
      /\ response.cuts[i].endTime - response.cuts[i].startTime <= 120
      /\ response.cuts[i].endTime <= duration }

\* C1: every segment analyzeVideoForCuts returns, AI-sourced or
\* fallback-sourced, has 60 <= endTime - startTime <= 120 and
\* endTime <= sourceDuration.
C1_SegmentValidity ==
  selPc = "returned" =>
    \A k \in 1..Len(selResult) :
      /\ selResult[k].endTime - selResult[k].startTime >= 60
      /\ selResult[k].endTime - selResult[k].startTime <= 120
      /\ selResult[k].endTime <= duration

\* C1 witness: a call whose proposals were all rejected and that returned
\* several fallback segments.
C1_Witness ==
  /\ selPc = "returned"
  /\ Len(response.cuts) = 2
  /\ ValidPositions = {}
  /\ Len(selResult) >= 2

\* The windows [90*i, min(90*i + 90, D)] with 90*i < D that are at least
\* 60 seconds long, as the specification describes the fallback.
SpecWindows(d) ==
  { <<90 * i, Min(90 * i + 90, d)>> :
      i \in { j \in 0..(d \div 90) : 90 * j < d /\ Min(90 * j + 90, d) - 90 * j >= 60 } }

\* C6: with no valid proposal the result holds every window
\* [90*i, min(90*i + 90, D)], 90*i < D, of length >= 60, and nothing else;
\* a clipped trailing window of 60 seconds or more is kept.
C6_FallbackKeepsClippedTail ==
  (selPc = "returned" /\ ValidPositions = {}) =>
    { <<selResult[k].startTime, selResult[k].endTime>> : k \in 1..Len(selResult) }
      = SpecWindows(duration)

\* The tiling as a function of the duration alone.
ExpectedTiling(d) ==
  [ k \in 1..(d \div 90) |->
      [startTime |-> 90 * (k - 1), endTime |-> 90 * k,
       description |-> "Segmento " \o ToString(k)] ]

\* C7: with zero valid proposals the output depends on sourceDuration
\* alone: windows start at 0, begin at consecutive multiples of 90, never
\* overlap, and sourceDuration = 305 yields (0,90),(90,180),(180,270).
C7_FallbackDeterminism ==
  (selPc = "returned" /\ ValidPositions = {}) =>
    /\ selResult = ExpectedTiling(duration)
    /\ \A k \in 1..Len(selResult) : selResult[k].startTime = 90 * (k - 1)
    /\ \A k \in 1..(Len(selResult) - 1) :
         selResult[k].endTime <= selResult[k + 1].startTime
    /\ duration = 305 =>
         [ k \in 1..Len(selResult) |->
             <<selResult[k].startTime, selResult[k].endTime>> ]
           = << <<0, 90>>, <<90, 180>>, <<180, 270>> >>

\* C7 witness: duration 305, proposals present but none valid.
C7_Witness ==
  /\ selPc = "returned"
  /\ duration = 305
  /\ Len(response.cuts) > 0
  /\ ValidPositions = {}
  /\ Len(selResult) = 3

\* C8: when some proposal is valid the result is exactly the valid
\* proposals, unchanged, in the oracle's order, with no fallback segment.
C8_KeepsValidProposals ==
  (selPc = "returned" /\ ValidPositions # {}) =>
    /\ Len(selResult) = Cardinality(ValidPositions)
    /\ \E f \in [1..Len(selResult) -> ValidPositions] :
         /\ \A j, k \in 1..Len(selResult) : j < k => f[j] < f[k]
         /\ \A k \in 1..Len(selResult) : selResult[k] = response.cuts[f[k]]

\* C8 witness: duration 150, the single proposal (10,100) is returned.
C8_Witness ==
  /\ selPc = "returned"
  /\ duration = 150
  /\ response.cuts = << [startTime |-> 10, endTime |-> 100, description |-> "ai"] >>
  /\ selResult = response.cuts

\* C9 as stated: a parsable answer never makes the call fail, and the call
\* fails only on a duration-probe failure or an unparsable answer.
C9_OnlyProbeOrFormatErrors ==
  /\ response.kind = "array" => selPc \in {"responded", "returned"}
  /\ selPc = "thrown" =>
       selError \in {"probe-tool-missing", "probe-failed", "format"}

\* C9 amended: a parsable answer never makes the call fail (the result may
\* be empty); the call fails only when the duration probe fails, the source
\* cannot be read, the oracle call itself fails, or the answer does not
\* parse into an array of proposals.
C9_NoErrorForNoMoments ==
  /\ response.kind = "array" => selPc \in {"responded", "returned"}
  /\ selPc = "thrown" =>
       /\ selError \in {"probe-tool-missing", "probe-failed", "read-failed",
                        "oracle-call-failed", "format"}
       /\ selError = "format" => response.kind \in {"nomatch", "badjson", "nullitem"}

\* C9 witness: the probe succeeded, the oracle answered an empty array, the
\* source is too short for any fallback window, and the call returned [].
C9_Witness ==
  /\ selPc = "returned"
  /\ response.kind = "array"
  /\ response.cuts = <<>>
  /\ duration < 60
  /\ selResult = <<>>

(***************************************************************************)
(* Subtitle normaliser: server/subtitles.ts, sanitizeSrt                   *)
(*                                                                         *)
(* A text is a sequence of tokens.  The arrow characters are single        *)
(* tokens, so the replacement of line 101 acts inside "-->" as the regular *)
(* expression does.  A timestamp is one token that keeps its form:         *)
(*   "c3"  HH:MM:SS,mmm      "d3"  HH:MM:SS.m      "b3"  HH:MM:SS          *)
(* where the number names the instant.                                     *)
(***************************************************************************)
NL == "\n"
SP == " "
HY == "-"
GT == ">"
EnDash == "en-dash"
EmDash == "em-dash"
Fence == "fence"   \* a run of three backticks

TimeIdx == 0..(MaxBlocks + 1)
CommaTs(k) == "c" \o ToString(k)
DotTs(k) == "d" \o ToString(k)
BareTs(k) == "b" \o ToString(k)
IsCommaTs(t) == \E k \in TimeIdx : t = CommaTs(k)
IsDotTs(t) == \E k \in TimeIdx : t = DotTs(k)
IsBareTs(t) == \E k \in TimeIdx : t = BareTs(k)
InstantOf(t) == CHOOSE k \in TimeIdx : t \in {CommaTs(k), DotTs(k), BareTs(k)}
IsDigits(t) == \E k \in 0..(MaxBlocks + 2) : t = ToString(k)
IsSpace(t) == t \in {SP, NL}

Arrow == <<HY, HY, GT>>

\* s.slice(i - 1, j - 1) in 1-based positions: tokens i..j of s.
Slice(s, i, j) == IF j < i THEN <<>> ELSE SubSeq(s, i, j)

\* String.prototype.trim
RECURSIVE TrimStart(_)
TrimStart(s) ==
  IF s # <<>> /\ IsSpace(Head(s)) THEN TrimStart(Tail(s)) ELSE s
RECURSIVE TrimEnd(_)
TrimEnd(s) ==
  IF s # <<>> /\ IsSpace(s[Len(s)]) THEN TrimEnd(Slice(s, 1, Len(s) - 1)) ELSE s
Trim(s) == TrimEnd(TrimStart(s))

\* Position of the first token from i on that is tok, or Len(s) + 1.
RECURSIVE IndexFrom(_, _, _)
IndexFrom(s, i, tok) ==
  IF i > Len(s) THEN Len(s) + 1
  ELSE IF s[i] = tok THEN i ELSE IndexFrom(s, i + 1, tok)

\* Line 98: t.replace(/```[\s\S]*?```/g, m => m.replace(/```/g, "").trim())
RECURSIVE unwrapFences(_)
unwrapFences(s) ==
  LET a == IndexFrom(s, 1, Fence)
      b == IndexFrom(s, a + 1, Fence)
  IN  IF a > Len(s) \/ b > Len(s) THEN s
      ELSE Slice(s, 1, a - 1) \o Trim(Slice(s, a + 1, b - 1))
             \o unwrapFences(Slice(s, b + 1, Len(s)))

\* Line 99: t.replace(/^```.*$|^\s*```\s*$/gm, ""), for a fence that opens
\* its line: the fence and the rest of its line go.
RECURSIVE dropFenceLines(_, _)
dropFenceLines(s, atLineStart) ==
  IF s = <<>> THEN <<>>
  ELSE IF Head(s) = Fence /\ atLineStart
       THEN LET e == IndexFrom(s, 1, NL)
            IN  dropFenceLines(Slice(s, e, Len(s)), FALSE)
       ELSE <<Head(s)>> \o dropFenceLines(Tail(s), Head(s) = NL)

\* Line 101: t.replace(/<en dash>>|<em dash>>|->/g, "-->")
RECURSIVE normalizeArrows(_)
normalizeArrows(s) ==
  IF s = <<>> THEN <<>>
  ELSE IF Len(s) >= 2 /\ s[1] \in {EnDash, EmDash, HY} /\ s[2] = GT
       THEN Arrow \o normalizeArrows(Slice(s, 3, Len(s)))
       ELSE <<Head(s)>> \o normalizeArrows(Tail(s))

\* Line 103: HH:MM:SS.m -> HH:MM:SS,m00
dotsToCommas(s) ==
  [ i \in 1..Len(s) |-> IF IsDotTs(s[i]) THEN CommaTs(InstantOf(s[i])) ELSE s[i] ]

\* \s* from position i: the first position that holds no white space.
RECURSIVE SkipSpace(_, _)
SkipSpace(s, i) ==
  IF i <= Len(s) /\ IsSpace(s[i]) THEN SkipSpace(s, i + 1) ELSE i

\* <ts>\s*-->\s*<ts> matched at position i, both timestamps comma-form
\* (comma = TRUE, lines 106 and 117) or both bare (line 104): the position
\* of the second timestamp, or 0 when there is no match at i.
rangeAt(s, i, comma) ==
  LET ok(t) == IF comma THEN IsCommaTs(t) ELSE IsBareTs(t)
      a == SkipSpace(s, i + 1)
      b == SkipSpace(s, a + 3)
  IN  IF /\ i <= Len(s) /\ ok(s[i])
         /\ a + 2 <= Len(s) /\ Slice(s, a, a + 2) = Arrow
         /\ b <= Len(s) /\ ok(s[b])
      THEN b ELSE 0

\* Line 104: HH:MM:SS --> HH:MM:SS gets ",000" on both ends.
RECURSIVE padBareRanges(_, _)
padBareRanges(s, i) ==
  IF i > Len(s) THEN s
  ELSE LET b == rangeAt(s, i, FALSE)
       IN  IF b = 0 THEN padBareRanges(s, i + 1)
           ELSE padBareRanges(
                  [ s EXCEPT ![i] = CommaTs(InstantOf(s[i])),
                             ![b] = CommaTs(InstantOf(s[b])) ], b + 1)

\* Lines 106 and 117: /\d{1,2}:\d{2}:\d{2},\d{3}\s*-->\s*...,\d{3}/.test
hasRange(s) == \E i \in 1..Len(s) : rangeAt(s, i, TRUE) # 0

\* split(/\n/): the lines of s.
RECURSIVE splitLines(_)
splitLines(s) ==
  LET e == IndexFrom(s, 1, NL)
  IN  IF e > Len(s) THEN <<s>>
      ELSE <<Slice(s, 1, e - 1)>> \o splitLines(Slice(s, e + 1, Len(s)))

isBlank(line) == \A i \in 1..Len(line) : line[i] = SP

\* join("\n")
RECURSIVE joinLines(_)
joinLines(ls) ==
  IF ls = <<>> THEN <<>>
  ELSE IF Len(ls) = 1 THEN ls[1]
       ELSE ls[1] \o <<NL>> \o joinLines(Tail(ls))

\* Line 109: t.split(/\n\s*\n/).map(p => p.trim()).filter(Boolean), each
\* part kept as its lines: a run of lines between blank lines.
RECURSIVE groupParts(_, _)
groupParts(ls, cur) ==
  LET close == IF Trim(joinLines(cur)) = <<>> THEN <<>>
               ELSE <<Trim(joinLines(cur))>>
  IN  IF ls = <<>> THEN close
      ELSE IF isBlank(Head(ls)) /\ cur # <<>>
           THEN close \o groupParts(Tail(ls), <<>>)
           ELSE IF isBlank(Head(ls)) THEN groupParts(Tail(ls), <<>>)
                ELSE groupParts(Tail(ls), Append(cur, Head(ls)))

splitParts(t) == groupParts(splitLines(t), <<>>)

\* lines.findIndex(l => range.test(l)), 1-based, 0 when none.
RECURSIVE findRangeLine(_, _)
findRangeLine(lines, i) ==
  IF i > Len(lines) THEN 0
  ELSE IF hasRange(lines[i]) THEN i ELSE findRangeLine(lines, i + 1)

\* The loop with idx advanced for every part, dropped ones included.
RECURSIVE rebuildCountingDropped(_, _, _)
rebuildCountingDropped(parts, k, idx) ==
  IF k > Len(parts) THEN <<>>
  ELSE LET all == SelectSeq(splitLines(parts[k]), LAMBDA l : l # <<>>)
           lines == IF all # <<>> /\ \A i \in 1..Len(all[1]) : IsDigits(all[1][i])
                    THEN Tail(all) ELSE all
           rangeIdx == findRangeLine(lines, 1)
           text == Trim(joinLines(Slice(lines, rangeIdx + 1, Len(lines))))
       IN  IF rangeIdx = 0 \/ text = <<>>
           THEN rebuildCountingDropped(parts, k + 1, idx + 1)
           ELSE << <<ToString(idx)>>, lines[rangeIdx], text, <<>> >>
                  \o rebuildCountingDropped(parts, k + 1, idx + 1)

\* Lines 112-126: the loop over the parts, from part k with the next
\* index idx; the result is the list out.
RECURSIVE rebuild(_, _, _)
rebuild(parts, k, idx) ==
  IF k > Len(parts) THEN <<>>
  ELSE LET all == SelectSeq(splitLines(parts[k]), LAMBDA l : l # <<>>)
           lines == IF all # <<>> /\ \A i \in 1..Len(all[1]) : IsDigits(all[1][i])
                    THEN Tail(all) ELSE all
           rangeIdx == findRangeLine(lines, 1)
           text == Trim(joinLines(Slice(lines, rangeIdx + 1, Len(lines))))
       IN  IF rangeIdx = 0 \/ text = <<>>
           THEN rebuild(parts, k + 1, idx)
           ELSE << <<ToString(idx)>>, lines[rangeIdx], text, <<>> >>
                  \o rebuild(parts, k + 1, idx + 1)

\* Lines 94-104 alone: the normalised text is returned without the range
\* test and the rebuild.
sanitizeSrtNoRejection(srt) ==
  IF srt = <<>> THEN <<>>
  ELSE padBareRanges(dotsToCommas(normalizeArrows(
         dropFenceLines(unwrapFences(Trim(srt)), TRUE))), 1)

\* sanitizeSrt, lines 94-129.
sanitizeSrt(srt) ==
  IF srt = <<>> THEN <<>>
  ELSE LET t0 == Trim(srt)
           t1 == dropFenceLines(unwrapFences(t0), TRUE)
           t2 == normalizeArrows(t1)
           t3 == padBareRanges(dotsToCommas(t2), 1)
       IN  IF ~hasRange(t3) THEN <<>>
           ELSE LET final == Trim(joinLines(rebuild(splitParts(t3), 1, 1)))
                IN  IF final # <<>> THEN final \o <<NL>> ELSE <<>>

(***************************************************************************)
(* Raw subtitle texts given to sanitizeSrt: up to MaxBlocks blocks, each   *)
(* with or without its index line and its text, its range written with one *)
(* of the arrows and one of the timestamp forms, the whole optionally      *)
(* inside a code fence (closed, or opened and never closed).               *)
(***************************************************************************)
ArrowForms == {"-->", "->", "en"}
ArrowTokens(a) ==
  IF a = "-->" THEN Arrow ELSE IF a = "->" THEN <<HY, GT>> ELSE <<EnDash, GT>>

StampForms == {"comma", "dot", "bare"}
Stamp(form, k) ==
  IF form = "comma" THEN CommaTs(k) ELSE IF form = "dot" THEN DotTs(k) ELSE BareTs(k)

BlockShapes ==
  [ index : BOOLEAN, arrow : ArrowForms, stamp : StampForms, text : BOOLEAN ]

BlockText(k) == "w" \o ToString(k)

\* Block number k (1-based) of a document, as text.
renderBlock(shape, k) ==
  (IF shape.index THEN <<ToString(k), NL>> ELSE <<>>)
    \o <<Stamp(shape.stamp, k - 1), SP>> \o ArrowTokens(shape.arrow)
    \o <<SP, Stamp(shape.stamp, k)>>
    \o (IF shape.text THEN <<NL, BlockText(k)>> ELSE <<>>)

RECURSIVE renderBlocks(_, _)
renderBlocks(shapes, k) ==
  IF k > Len(shapes) THEN <<>>
  ELSE renderBlock(shapes[k], k) \o <<NL>>
         \o (IF k < Len(shapes) THEN <<NL>> ELSE <<>>)
         \o renderBlocks(shapes, k + 1)

FenceForms == {"none", "closed", "open"}
renderDoc(shapes, fence) ==
  IF fence = "none" THEN renderBlocks(shapes, 1)
  ELSE IF fence = "closed" THEN <<Fence, NL>> \o renderBlocks(shapes, 1) \o <<Fence>>
  ELSE <<Fence, NL>> \o renderBlocks(shapes, 1)

\* Texts without a time range: prose, indexed prose, a lone timestamp, two
\* timestamps with no arrow between them, an arrow with no timestamps, and
\* prose inside a code fence.
RangelessTexts ==
  { <<"w1">>,
    <<"1", NL, "w1", NL, NL, "2", NL, "w2">>,
    <<"1", NL, CommaTs(0), NL, "w1">>,
    <<CommaTs(0), SP, "w1", SP, CommaTs(1), NL, "w2">>,
    <<DotTs(0), NL, BareTs(1), NL, "w1">>,
    <<"1", NL>> \o Arrow \o <<NL, "w1">>,
    <<Fence, NL, "w1", NL, Fence>> }

\* Documents with a block that has no range (prose, before or after a block
\* that has one) and with a block whose only text stands before its range.
MixedTexts ==
  { <<"w9", NL, NL, "1", NL, CommaTs(0), SP, HY, GT, SP, CommaTs(1), NL, "w1">>,
    <<"1", NL, DotTs(0), SP, HY, GT, SP, DotTs(1), NL, "w1", NL, NL, "w9", NL,
      NL, "3", NL, BareTs(1), SP, HY, GT, SP, BareTs(2), NL, "w2">>,
    <<"w1", NL, CommaTs(0), SP, HY, GT, SP, CommaTs(1), NL, NL,
      CommaTs(1), SP, EnDash, GT, SP, CommaTs(2), NL, "w2">> }

\* Documents whose range does not advance: it ends before it starts, or
\* where it starts.
BackwardTexts ==
  { <<"1", NL, CommaTs(1), SP, HY, GT, SP, CommaTs(0), NL, "w2">>,
    <<"1", NL, DotTs(1), SP, HY, GT, SP, DotTs(1), NL, "w2">> }

RawTexts ==
  { renderDoc(shapes, fence) :
      shapes \in UNION { [1..n -> BlockShapes] : n \in 1..MaxBlocks },
      fence \in FenceForms }
  \cup RangelessTexts \cup MixedTexts \cup BackwardTexts

\* A well-formed SRT document: sequential indices, HH:MM:SS,mmm --> HH:MM:SS,mmm
\* ranges, a non-empty text in every block.
WellFormedShape == [index |-> TRUE, arrow |-> "-->", stamp |-> "comma", text |-> TRUE]
WellFormedTexts ==
  { renderDoc([k \in 1..n |-> WellFormedShape], "none") : n \in 1..MaxBlocks }

SrtInit ==
  /\ SelIdle
  /\ BuildIdle
  /\ ExtIdle
  /\ InvIdle
  /\ EditIdle
  /\ RunsIdle
  /\ EnvIdle
  /\ srtPc = "input"
  /\ srtText \in RawTexts
  /\ srtOnce = <<>>
  /\ srtTwice = <<>>

\* sanitizeSrt(srtText)
SanitizeOnce ==
  /\ srtPc = "input"
  /\ srtOnce' = sanitizeSrt(srtText)
  /\ srtPc' = "once"
  /\ UNCHANGED <<srtText, srtTwice>>

\* sanitizeSrt applied to its own output
SanitizeTwice ==
  /\ srtPc = "once"
  /\ srtTwice' = sanitizeSrt(srtOnce)
  /\ srtPc' = "twice"
  /\ UNCHANGED <<srtText, srtOnce>>

SrtNext ==
  \/ SanitizeOnce /\ UNCHANGED <<selVars, buildVars, extVars, invVars, editVars, fsVars, cutVars, pipeVars>>
  \/ SanitizeTwice /\ UNCHANGED <<selVars, buildVars, extVars, invVars, editVars, fsVars, cutVars, pipeVars>>

SpecSrt == SrtInit /\ [][SrtNext]_vars

(***************************************************************************)
(* Claims about the normaliser                                             *)
(***************************************************************************)
\* C4: sanitizeSrt reproduces a well-formed document (same indexed blocks,
\* same timecodes), and sanitizeSrt(sanitizeSrt(x)) = sanitizeSrt(x) for
\* every input x.
C4_NormalizeRoundTrip ==
  /\ (srtPc # "input" /\ srtText \in WellFormedTexts) => srtOnce = srtText
  /\ srtPc = "twice" => srtTwice = srtOnce

\* A token that spells a timestamp, in any of the three forms.
IsStamp(tok) == IsCommaTs(tok) \/ IsDotTs(tok) \/ IsBareTs(tok)

\* The text has two timestamps with an arrow, in any spelling, between
\* them and nothing else but white space.
HasRangeLike(text) ==
  \E i, j \in 1..Len(text) :
    /\ i < j
    /\ IsStamp(text[i]) /\ IsStamp(text[j])
    /\ \E k \in (i + 1)..(j - 1) : text[k] = GT
    /\ \A k \in (i + 1)..(j - 1) : text[k] \in {SP, NL, HY, GT, EnDash, EmDash}

\* C12: for a text with no time range in it, sanitizeSrt returns the empty
\* string; what it returns is never a document without a range.
C12_RangelessTextRejected ==
  srtPc # "input" =>
    /\ ~HasRangeLike(srtText) => srtOnce = <<>>
    /\ srtOnce # <<>> => HasRangeLike(srtOnce)

\* C12 witness: a text with timestamps but no arrow between them was
\* normalised to the empty string.
C12_Witness ==
  /\ srtPc = "once"
  /\ srtText = <<CommaTs(0), SP, "w1", SP, CommaTs(1), NL, "w2">>
  /\ srtOnce = <<>>

\* The blocks of a normalised document, each as its lines.
OutBlocks(doc) ==
  LET parts == splitParts(doc)
  IN  [k \in 1..Len(parts) |-> splitLines(parts[k])]

\* The text payload of a block: what follows its range line.
PayloadOf(block) == Trim(joinLines(Slice(block, 3, Len(block))))

\* The number of the input block a normalised block came from, read from
\* the instant its range starts at.
SourceOf(block) == InstantOf(block[2][1]) + 1

\* C25: a non-empty document returned by sanitizeSrt is made of blocks
\* numbered 1, 2, ..., k, each an index line, a time-range line and a
\* non-empty text payload, in input order; every block comes from an input
\* block that had a range and a text after it, so the others contribute no
\* block and consume no index.
C25_BlocksReindexedInOrder ==
  (srtPc # "input" /\ srtOnce # <<>>) =>
    LET blocks == OutBlocks(srtOnce)
    IN  /\ Len(blocks) >= 1
        /\ \A k \in 1..Len(blocks) :
             /\ Len(blocks[k]) >= 3
             /\ blocks[k][1] = <<ToString(k)>>
             /\ hasRange(blocks[k][2])
             /\ PayloadOf(blocks[k]) = <<BlockText(SourceOf(blocks[k]))>>
             /\ \E i \in 1..Len(srtText) :
                  srtText[i] = BlockText(SourceOf(blocks[k]))
        /\ \A j, k \in 1..Len(blocks) :
             j < k => SourceOf(blocks[j]) < SourceOf(blocks[k])

\* C25 witness: the first input block has no text, the second has one; the
\* document returned holds one block, numbered 1, with the second's text.
C25_Witness ==
  /\ srtPc = "once"
  /\ srtText = renderDoc(<< [index |-> TRUE, arrow |-> "->", stamp |-> "comma",
                            text |-> FALSE],
                           [index |-> TRUE, arrow |-> "->", stamp |-> "comma",
                            text |-> TRUE] >>, "none")
  /\ srtOnce = <<"1", NL, CommaTs(1), SP, HY, HY, GT, SP, CommaTs(2), NL, "w2", NL>>

\* C28: every time range of a document emitted by sanitizeSrt, and every
\* time range of a line emitted by buildAssFromWords (as toTime prints it,
\* in centiseconds), is non-negative and starts strictly before it ends.
C28_RangesAdvance ==
  /\ srtPc # "input" =>
       \A i \in 1..Len(srtOnce) :
         rangeAt(srtOnce, i, TRUE) # 0 =>
           /\ InstantOf(srtOnce[i]) >= 0
           /\ InstantOf(srtOnce[i]) < InstantOf(srtOnce[rangeAt(srtOnce, i, TRUE)])
  /\ (buildPc = "built" /\ buildOut.builder = "buildAssFromWords") =>
       \A k \in 1..Len(buildOut.lines) :
         /\ buildOut.lines[k].start >= 0
         /\ buildOut.lines[k].start \div 10 < (buildOut.lines[k].end + 10) \div 10

(***************************************************************************)
(* Cutter: server/video-processor.ts, cutVideo                             *)
(***************************************************************************)
\* How an awaited execFileAsync(ffmpeg, args, {timeout, maxBuffer}) ends.
\*   "exit0-output"      exit status 0, the output file was written
\*   "exit0-no-output"   exit status 0, nothing was written
\*   "failed"            non-zero exit, timeout or maxBuffer; no output
\*   "failed-partial"    the same, a partial output file is left behind
\*   "failed-not-found"  the same, and the tool's message holds "not found"
\*   "spawn-enoent"      the binary is absent: "spawn ffmpeg ENOENT"
ToolOutcomes ==
  {"exit0-output", "exit0-no-output", "failed", "failed-partial",
   "failed-not-found", "spawn-enoent"}
toolSucceeded(o) == o \in {"exit0-output", "exit0-no-output"}
toolWroteOutput(o) == o \in {"exit0-output", "failed-partial"}

\* error.message?.includes('não é reconhecido') || ...includes('not found')
messageSaysNotFound(o) == o = "failed-not-found"

\* How a process started from bin may end: a binary that exists at an
\* explicit path is spawned; a bare name may be missing from the PATH.
toolOutcomesFor(bin, disk) ==
  IF bin \in disk THEN ToolOutcomes \ {"spawn-enoent"} ELSE ToolOutcomes

Formats == {"horizontal", "vertical"}
CutTimes == {10, 100}
CutArgs ==
  [ inputPath : {UploadedVideo, MissingVideo}, startTime : CutTimes,
    endTime : CutTimes, format : Formats ]

\* Lines 38-44 without the range test.
cutInputProblemNoRangeTest(args, fs) ==
  IF args.inputPath \notin fs THEN "Arquivo de video nao encontrado" ELSE ""

\* Lines 38-44: the message of the error thrown before the transcoder is
\* started, "" when the arguments pass.
cutInputProblem(args, fs) ==
  IF args.inputPath \notin fs THEN "Arquivo de video nao encontrado"
  ELSE IF Max(0, args.endTime - args.startTime) <= 0
       THEN "Intervalo de corte invalido"
       ELSE ""

\* Line 86 skipped: the output is taken to exist.
outputExistsUnchecked(path, fs) == TRUE

\* Line 86: fs.existsSync(outputPath)
outputExists(path, fs) == path \in fs

\* A caller invokes cutVideo(inputPath, startTime, endTime, format, dir).
CallCutVideo(r) ==
  /\ pc[r] = "idle"
  /\ \E args \in CutArgs : cutArgs' = [cutArgs EXCEPT ![r] = args]
  /\ pc' = [pc EXCEPT ![r] = "cut-called"]
  /\ UNCHANGED <<now, files, cutPath, cutReturn, error, spawned, wrote,
                 lastTool>>

\* cutVideo, lines 32-81: name the output after the clock, validate, start
\* the transcoder.
CutVideoBegin(r) ==
  /\ pc[r] = "cut-called"
  /\ LET timestamp == now
         outputPath == Path("cut", timestamp, "mp4")
     IN  /\ cutPath' = [cutPath EXCEPT ![r] = outputPath]
         /\ IF cutInputProblem(cutArgs[r], files) # ""
            THEN /\ pc' = [pc EXCEPT ![r] = "cut-threw"]
                 /\ error' = [error EXCEPT ![r] = "cut-failed"]
                 /\ UNCHANGED spawned
            ELSE /\ pc' = [pc EXCEPT ![r] = "cut-running"]
                 /\ spawned' = [spawned EXCEPT ![r] = @ + 1]
                 /\ UNCHANGED error
  /\ UNCHANGED <<now, files, cutArgs, cutReturn, wrote, lastTool>>

\* cutVideo, lines 81-97: the transcoder ends; check the output; return or
\* translate the error.
CutVideoEnd(r) ==
  /\ pc[r] = "cut-running"
  /\ \E o \in toolOutcomesFor(resolveFFmpeg(env, toolFiles), toolFiles) :
       LET disk == IF toolWroteOutput(o) THEN files \cup {cutPath[r]} ELSE files
       IN  /\ files' = disk
           /\ lastTool' = [lastTool EXCEPT ![r] = o]
           /\ wrote' = [wrote EXCEPT ![r] =
                          IF toolWroteOutput(o) THEN @ \cup {cutPath[r]} ELSE @]
           /\ IF toolSucceeded(o) /\ outputExists(cutPath[r], disk)
              THEN /\ cutReturn' = [cutReturn EXCEPT ![r] =
                                      [path |-> cutPath[r],
                                       existed |-> cutPath[r] \in disk]]
                   /\ pc' = [pc EXCEPT ![r] = "cut-returned"]
                   /\ UNCHANGED error
              ELSE /\ pc' = [pc EXCEPT ![r] = "cut-threw"]
                   /\ error' = [error EXCEPT ![r] =
                                  IF ~toolSucceeded(o) /\ messageSaysNotFound(o)
                                  THEN "ffmpeg-not-installed" ELSE "cut-failed"]
                   /\ UNCHANGED cutReturn
  /\ UNCHANGED <<now, cutArgs, cutPath, spawned>>

CutInit == SelIdle /\ SrtIdle /\ BuildIdle /\ ExtIdle /\ InvIdle /\ EditIdle /\ RunsIdle /\ EnvIdle

CutNext ==
  \/ Tick /\ UNCHANGED <<selVars, srtVars, buildVars, extVars, invVars, editVars, pipeVars>>
  \/ \E r \in Runs : CallCutVideo(r) /\ UNCHANGED <<selVars, srtVars, buildVars, extVars, invVars, editVars, pipeVars>>
  \/ \E r \in Runs : CutVideoBegin(r) /\ UNCHANGED <<selVars, srtVars, buildVars, extVars, invVars, editVars, pipeVars>>
  \/ \E r \in Runs : CutVideoEnd(r) /\ UNCHANGED <<selVars, srtVars, buildVars, extVars, invVars, editVars, pipeVars>>

\* Concurrent cutVideo calls into one directory.
SpecCut == CutInit /\ [][CutNext]_vars

(***************************************************************************)
(* Claims about the cutter                                                 *)
(***************************************************************************)
\* C2: for start < end and an existing source, cutVideo either returns a
\* path that exists on disk when it returns or fails with an error, also
\* when the transcoder exits with 0 and wrote nothing.
C2_CutPostcondition ==
  \A r \in Runs :
    (/\ cutArgs[r].inputPath = UploadedVideo
     /\ cutArgs[r].startTime < cutArgs[r].endTime
     /\ pc[r] \in {"cut-returned", "cut-threw"}) =>
      \/ pc[r] = "cut-returned" /\ cutReturn[r].path # NoPath
           /\ cutReturn[r].existed /\ error[r] = ""
      \/ pc[r] = "cut-threw" /\ cutReturn[r] = NoReturn /\ error[r] # ""

\* C2 witness: a valid call has returned its output, which is on disk.
C2_Witness ==
  \E r \in Runs :
    /\ pc[r] = "cut-returned"
    /\ cutArgs[r].startTime < cutArgs[r].endTime
    /\ cutReturn[r].path \in files

\* C3: two concurrent runs never write the same path.
C3_DistinctPathsAcrossRuns ==
  \A r1, r2 \in Runs : r1 # r2 => wrote[r1] \cap wrote[r2] = {}

\* C10: cutVideo called with end <= start, or with a source that does not
\* exist, fails with an error, starts no transcoder and creates no file.
C10_InvalidCutFailsEarly ==
  \A r \in Runs :
    (/\ pc[r] \notin {"idle", "cut-called"}
     /\ \/ cutArgs[r].endTime <= cutArgs[r].startTime
        \/ cutArgs[r].inputPath \notin files) =>
      /\ pc[r] = "cut-threw"
      /\ error[r] # ""
      /\ spawned[r] = 0
      /\ wrote[r] = {}

\* C10 witness: a call with end <= start on an existing source has failed.
C10_Witness ==
  \E r \in Runs :
    /\ pc[r] = "cut-threw"
    /\ cutArgs[r].inputPath \in files
    /\ cutArgs[r].endTime <= cutArgs[r].startTime
    /\ spawned[r] = 0

(***************************************************************************)
(* Word-aligned subtitle builder: server/subtitles.ts, buildAssFromWords   *)
(*                                                                         *)
(* Word times are whole milliseconds.  A script is a sequence of tokens,   *)
(* like the normaliser's texts; the header's first line is the tokens      *)
(* "[", line feed, "Script Info]" as the template literal of lines 209-210 *)
(* writes them.                                                            *)
(***************************************************************************)
Word(start, end, text) == [start |-> start, end |-> end, text |-> text]

\* Word lists the speech engine's JSON may parse into, in the order the
\* engine emitted them.
TranscribedWords ==
  { <<>>,
    << Word(0, 400, "ola") >>,
    << Word(0, 400, "ola"), Word(500, 900, "mundo") >>,
    << Word(500, 900, "mundo"), Word(0, 400, "ola") >>,
    << Word(0, 400, "ola"), Word(2000, 2600, "fim") >> }

\* words.sort((a,b) => a.start - b.start), line 199: a stable insertion.
RECURSIVE insertByStart(_, _)
insertByStart(sorted, w) ==
  IF sorted = <<>> THEN <<w>>
  ELSE IF w.start < Head(sorted).start THEN <<w>> \o sorted
       ELSE <<Head(sorted)>> \o insertByStart(Tail(sorted), w)
RECURSIVE sortByStart(_)
sortByStart(ws) ==
  IF ws = <<>> THEN <<>>
  ELSE insertByStart(sortByStart(Slice(ws, 1, Len(ws) - 1)), ws[Len(ws)])

\* Lines 209-210: the template literal opens with "[", a line break, then
\* "Script Info]".
assHeaderOpening == <<"[", NL, "Script Info]", NL>>

\* Lines 203-223: the header.
assHeader(vertical) ==
  LET playResX == IF vertical THEN 1080 ELSE 1920
      playResY == IF vertical THEN 1920 ELSE 1080
      fontSize == IF vertical THEN 48 ELSE 42
      marginV == IF vertical THEN 80 ELSE 60
  IN  assHeaderOpening
        \o << "ScriptType: v4.00+", NL, "Collisions: Normal", NL,
              "PlayResX: " \o ToString(playResX), NL,
              "PlayResY: " \o ToString(playResY), NL,
              "ScaledBorderAndShadow: yes", NL, NL,
              "[V4+ Styles]", NL, "Format: Name, Fontname, Fontsize, ...", NL,
              "Style: Default,Arial," \o ToString(fontSize) \o ",...,"
                \o ToString(marginV) \o ",1", NL, NL,
              "[Events]", NL, "Format: Layer, Start, End, ..., Text", NL >>

\* buf.reduce((s,x) => s + x.text.length + 1, 0), line 238
RECURSIVE lineChars(_)
lineChars(buf) ==
  IF buf = <<>> THEN 0 ELSE Len(Head(buf).text) + 1 + lineChars(Tail(buf))

PauseGapMs == 350
LineCharBudget == 40

\* Lines 228-243: the grouping loop from word i, with buf and lastEnd.
RECURSIVE groupWords(_, _, _, _)
groupWords(words, i, buf, lastEnd) ==
  LET flushed == IF buf = <<>> THEN <<>>
                 ELSE << [start |-> buf[1].start, end |-> buf[Len(buf)].end,
                          words |-> buf] >>
  IN  IF i > Len(words) THEN flushed
      ELSE LET w == words[i]
               gap == w.start - lastEnd
           IN  IF gap > PauseGapMs \/ lineChars(buf) > LineCharBudget
               THEN flushed \o groupWords(words, i + 1, <<w>>, w.end)
               ELSE groupWords(words, i + 1, Append(buf, w), w.end)

assLines(words) == groupWords(words, 1, <<>>, words[1].start)

Pad2(n) == IF n < 10 THEN "0" \o ToString(n) ELSE ToString(n)

\* toTime, lines 245-251, of t milliseconds
toTime(t) ==
  LET hh == t \div 3600000
      mm == (t % 3600000) \div 60000
      ss == (t \div 1000) % 60
      cs == (t % 1000) \div 10
  IN  ToString(hh) \o ":" \o Pad2(mm) \o ":" \o Pad2(ss) \o "." \o Pad2(cs)

\* Math.max(1, Math.round((w.end - w.start) * 100)), line 258
durCs(w) == Max(1, (w.end - w.start + 5) \div 10)

RECURSIVE karaokeText(_)
karaokeText(ws) ==
  IF ws = <<>> THEN <<>>
  ELSE << "{\\kf" \o ToString(durCs(Head(ws))) \o "}" \o Head(ws).text >>
         \o (IF Len(ws) > 1 THEN <<SP>> ELSE <<>>) \o karaokeText(Tail(ws))

\* Lines 254-264: one Dialogue line per group; events.join("\n") + "\n".
RECURSIVE assEvents(_)
assEvents(lines) ==
  IF lines = <<>> THEN <<>>
  ELSE << "Dialogue: 0," \o toTime(Head(lines).start) \o ","
            \o toTime(Head(lines).end + 10) \o ",Default,,0,0,0,,{\\an2}" >>
         \o karaokeText(Head(lines).words) \o <<NL>> \o assEvents(Tail(lines))

\* buildAssFromWords(words, { vertical }), lines 202-267
buildAssFromWords(words, vertical) ==
  IF Len(words) = 0 THEN assHeader(vertical)
  ELSE assHeader(vertical) \o assEvents(assLines(words))

(***************************************************************************)
(* Approximate subtitle builder: server/ai-renderer.ts, buildApproxAss     *)
(* Times are milliseconds; the words are plain strings.                    *)
(***************************************************************************)
\* Lines 116-134: the header, with this builder's font size and margin.
approxAssHeader(vertical) ==
  LET playResX == IF vertical THEN 1080 ELSE 1920
      playResY == IF vertical THEN 1920 ELSE 1080
      fontSize == IF vertical THEN 56 ELSE 48
      marginV == IF vertical THEN 120 ELSE 90
  IN  assHeaderOpening
        \o << "ScriptType: v4.00+", NL, "Collisions: Normal", NL,
              "PlayResX: " \o ToString(playResX), NL,
              "PlayResY: " \o ToString(playResY), NL,
              "ScaledBorderAndShadow: yes", NL, NL,
              "[V4+ Styles]", NL, "Format: Name, Fontname, Fontsize, ...", NL,
              "Style: Default,Arial," \o ToString(fontSize) \o ",...,"
                \o ToString(marginV) \o ",1", NL, NL,
              "[Events]", NL, "Format: Layer, Start, End, ..., Text", NL >>

ApproxCharBudget == 42

\* { start: Math.max(0, t - per * buf.length), end: t, tokens: buf },
\* lines 149 and 158
approxLine(t, per, buf) ==
  [start |-> Max(0, t - per * Len(buf)), end |-> t, tokens |-> buf]

\* Lines 142-159: the grouping loop from word i, with t, buf and chars.
RECURSIVE approxLines(_, _, _, _, _, _)
approxLines(words, i, t, buf, chars, per) ==
  IF i > Len(words)
  THEN IF buf # <<>> THEN <<approxLine(t, per, buf)>> ELSE <<>>
  ELSE LET w == words[i]
       IN  IF chars + Len(w) + 1 > ApproxCharBudget /\ buf # <<>>
           THEN <<approxLine(t, per, buf)>>
                  \o approxLines(words, i + 1, t + per, <<w>>, Len(w) + 1, per)
           ELSE approxLines(words, i + 1, t + per, Append(buf, w),
                            chars + Len(w) + 1, per)

\* Math.max(1, Math.round(((ln.end - ln.start) / ln.tokens.length) * 100)),
\* line 172
eachCs(ln) ==
  LET n == Len(ln.tokens)
  IN  Max(1, (2 * (ln.end - ln.start) + 10 * n) \div (20 * n))

RECURSIVE approxKaraokeText(_, _)
approxKaraokeText(each, toks) ==
  IF toks = <<>> THEN <<>>
  ELSE << "{\\kf" \o ToString(each) \o "}" \o Head(toks) >>
         \o (IF Len(toks) > 1 THEN <<SP>> ELSE <<>>)
         \o approxKaraokeText(each, Tail(toks))

\* Lines 169-178: one Dialogue line per group, joined by line breaks.
RECURSIVE approxEvents(_)
approxEvents(lines) ==
  IF lines = <<>> THEN <<>>
  ELSE << "Dialogue: 0," \o toTime(Head(lines).start) \o ","
            \o toTime(Head(lines).end + 20) \o ",Default,,0,0,0,,{\\an2}" >>
         \o approxKaraokeText(eachCs(Head(lines)), Head(lines).tokens)
         \o (IF Len(lines) > 1 THEN <<NL>> ELSE <<>>)
         \o approxEvents(Tail(lines))

\* Lines 137-159: the lines the builder groups a non-empty word list into.
approxLinesOf(words, dur) ==
  LET total == Max(500, dur)
      per == Max(200, total \div Len(words))
  IN  approxLines(words, 1, 0, <<>>, 0, per)

\* The builder without its early return: header + [].join("\n") + "\n".
buildApproxAssNoEarlyReturn(words, dur, vertical) ==
  approxAssHeader(vertical)
    \o (IF Len(words) = 0 THEN <<>> ELSE approxEvents(approxLinesOf(words, dur)))
    \o <<NL>>

\* buildApproxAss(words, { duration, vertical }), lines 115-179
buildApproxAss(words, dur, vertical) ==
  IF Len(words) = 0 THEN approxAssHeader(vertical)
  ELSE approxAssHeader(vertical) \o approxEvents(approxLinesOf(words, dur))
         \o <<NL>>

(***************************************************************************)
(* The two builders applied to word lists                                  *)
(***************************************************************************)
\* Word timings the speech engine may report: words that follow each other,
\* that overlap, that are separated by a pause, and a word of no length.
WordStarts == {0, 100, 1000}
WordEnds == {100, 400, 1000, 1600}
WordTexts == {"ola", "anticonstitucionalmente"}
WordPool ==
  { w \in { Word(s, e, t) : s \in WordStarts, e \in WordEnds, t \in WordTexts } :
      w.start <= w.end }

IsSortedByStart(ws) ==
  \A i \in 1..Len(ws) - 1 : ws[i].start <= ws[i + 1].start

\* What transcribeWordsWhisperCpp returns: words with start <= end, sorted
\* by start (line 199).
SortedWordLists ==
  UNION { { ws \in [1..n -> WordPool] :
              IsSortedByStart(ws) } : n \in 0..MaxWords }

\* text.split(/\s+/).filter(Boolean), ai-renderer.ts line 78, and the list
\* with no word.
ApproxTokenLists ==
  UNION { [1..n -> WordTexts] : n \in 0..MaxWords }

\* tts.durationSec || getDuration(audioPath), in milliseconds
ApproxDurations == {300, 500, 2000}

BuildInputs ==
  { [words |-> ws, tokens |-> <<>>, duration |-> 0, vertical |-> v] :
      ws \in SortedWordLists, v \in BOOLEAN }
  \cup
  { [words |-> <<>>, tokens |-> ts, duration |-> d, vertical |-> v] :
      ts \in ApproxTokenLists, d \in ApproxDurations, v \in BOOLEAN }

BuildInit ==
  /\ SelIdle /\ SrtIdle /\ ExtIdle /\ InvIdle /\ EditIdle /\ RunsIdle /\ EnvIdle
  /\ buildPc = "input"
  /\ buildIn \in BuildInputs
  /\ buildOut = NoBuildOutput

\* buildAssFromWords(words, { vertical })
BuildAssFromWords ==
  /\ buildPc = "input"
  /\ buildOut' =
       [builder |-> "buildAssFromWords",
        ass |-> buildAssFromWords(buildIn.words, buildIn.vertical),
        lines |-> IF Len(buildIn.words) = 0 THEN <<>>
                  ELSE assLines(buildIn.words)]
  /\ buildPc' = "built"
  /\ UNCHANGED buildIn

\* buildApproxAss(words, { duration, vertical })
BuildApproxAss ==
  /\ buildPc = "input"
  /\ buildOut' =
       [builder |-> "buildApproxAss",
        ass |-> buildApproxAss(buildIn.tokens, buildIn.duration,
                               buildIn.vertical),
        lines |-> IF Len(buildIn.tokens) = 0 THEN <<>>
                  ELSE approxLinesOf(buildIn.tokens, buildIn.duration)]
  /\ buildPc' = "built"
  /\ UNCHANGED buildIn

BuildNext ==
  \/ BuildAssFromWords /\ UNCHANGED <<selVars, srtVars, extVars, invVars, editVars, fsVars, cutVars, pipeVars>>
  \/ BuildApproxAss /\ UNCHANGED <<selVars, srtVars, extVars, invVars, editVars, fsVars, cutVars, pipeVars>>

SpecBuild == BuildInit /\ [][BuildNext]_vars

\* The last n tokens of a script.
Tail_n(ass, n) == Slice(ass, Len(ass) - n + 1, Len(ass))

\* A script with zero events: nothing follows the Format line of [Events].
HeaderOnly(ass) ==
  /\ Len(ass) >= 4
  /\ Tail_n(ass, 4) = <<"[Events]", NL, "Format: Layer, Start, End, ..., Text", NL>>

\* C13: both subtitle builders, called with an empty word list, return
\* exactly the script header, a document with zero events, in either
\* orientation.
C13_EmptyWordListGivesHeader ==
  buildPc = "built" =>
    /\ (buildOut.builder = "buildAssFromWords" /\ buildIn.words = <<>>) =>
         /\ buildOut.ass = assHeader(buildIn.vertical)
         /\ HeaderOnly(buildOut.ass)
    /\ (buildOut.builder = "buildApproxAss" /\ buildIn.tokens = <<>>) =>
         /\ buildOut.ass = approxAssHeader(buildIn.vertical)
         /\ HeaderOnly(buildOut.ass)

C13_Witness ==
  /\ buildPc = "built"
  /\ buildOut.builder = "buildApproxAss"
  /\ buildIn.tokens = <<>>
  /\ buildIn.vertical
  /\ HeaderOnly(buildOut.ass)

\* The highlight durations of a line's words, added up (centiseconds).
RECURSIVE sumDurCs(_)
sumDurCs(ws) == IF ws = <<>> THEN 0 ELSE durCs(Head(ws)) + sumDurCs(Tail(ws))

\* C14: for a word list sorted by start, every line of the word-aligned
\* builder has start <= end, and its per-word highlight durations add up to
\* at most the line's span plus one centisecond per word.
C14_LineTimingWithinSpan ==
  (buildPc = "built" /\ buildOut.builder = "buildAssFromWords") =>
    \A k \in 1..Len(buildOut.lines) :
      LET ln == buildOut.lines[k]
      IN  /\ ln.start <= ln.end
          /\ 10 * sumDurCs(ln.words) <= (ln.end - ln.start) + 10 * Len(ln.words)

(***************************************************************************)
(* The resolvers applied to a deployment                                   *)
(***************************************************************************)
EnvChoices ==
  [ FFMPEG_PATH : {Unset, "/opt/ffmpeg"}, FFPROBE_PATH : {Unset, "/opt/ffprobe"},
    PIPER_PATH : {Unset, "/opt/piper"},
    WHISPER_CPP_PATH : {Unset, "/opt/whisper/main"},
    WHISPER_CPP_MODEL : {Unset, ModelFile} ]

\* Paths that may or may not exist on the machine.
ToolPaths ==
  { "/opt/ffmpeg", "/opt/ffprobe", "/opt/piper", "/opt/whisper/main",
    "C:/ffmpeg/bin/ffmpeg.exe", "C:/Program Files/ffmpeg/bin/ffmpeg.exe",
    "C:/ProgramData/chocolatey/lib/ffmpeg/tools/ffmpeg/bin/ffmpeg.exe",
    "C:/ffmpeg/bin/ffprobe.exe", "C:/piper/piper.exe",
    "./whisper/main.exe", "main" }

ResolveInit ==
  /\ SelIdle /\ SrtIdle /\ BuildIdle /\ ExtIdle /\ InvIdle /\ EditIdle /\ RunsIdle
  /\ keepSrt = FALSE
  /\ env \in EnvChoices
  /\ toolFiles \in {S \in SUBSET ToolPaths : Cardinality(S) <= MaxToolFiles}

Resolved(tool, path) == [tool |-> tool, path |-> path]

\* resolveFFmpeg() of video-processor.ts, subtitles.ts and ai-renderer.ts
ResolveFFmpeg ==
  resolved' = Resolved("ffmpeg", resolveFFmpeg(env, toolFiles))

\* resolveFFprobe() of ai-renderer.ts and tts.ts
ResolveFFprobe ==
  resolved' = Resolved("ffprobe", resolveFFprobe(env, toolFiles))

\* resolvePiper() of tts.ts
ResolvePiper ==
  resolved' = Resolved("piper", resolvePiper(env, toolFiles))

\* resolveBinary(bin) of gemini.ts
ResolveBinary ==
  \E bin \in {"ffmpeg", "ffprobe"} :
    resolved' = Resolved("gemini-" \o bin, resolveBinary(bin, env, toolFiles))

\* resolveWhisperCpp() of subtitles.ts
ResolveWhisperCpp ==
  resolved' = Resolved("whisper", resolveWhisperCpp(env, toolFiles))

ResolveFrame ==
  UNCHANGED <<selVars, srtVars, buildVars, extVars, invVars, editVars, fsVars, cutVars, envVars, routeVars,
              transVars, burnVars>>

ResolveNext ==
  \/ ResolveFFmpeg /\ ResolveFrame
  \/ ResolveFFprobe /\ ResolveFrame
  \/ ResolvePiper /\ ResolveFrame
  \/ ResolveBinary /\ ResolveFrame
  \/ ResolveWhisperCpp /\ ResolveFrame

\* Any resolver called on any deployment.
SpecResolve == ResolveInit /\ [][ResolveNext]_vars

(***************************************************************************)
(* Claims about the resolvers                                              *)
(***************************************************************************)
\* What the resolver of a tool is to return: the override when it is set
\* and exists, else the first existing path of the fixed list, else orElse.
ExpectedResolution(override, fixed, disk, orElse) ==
  IF override # Unset /\ override \in disk THEN override
  ELSE IF \E i \in 1..Len(fixed) : fixed[i] \in disk
       THEN fixed[CHOOSE i \in 1..Len(fixed) :
                    /\ fixed[i] \in disk
                    /\ \A j \in 1..(i - 1) : fixed[j] \notin disk]
       ELSE orElse

\* The override, the fixed list and the bare name of the last resolver call.
OverrideOfCall ==
  CASE resolved.tool \in {"ffmpeg", "gemini-ffmpeg"} -> env.FFMPEG_PATH
    [] resolved.tool \in {"ffprobe", "gemini-ffprobe"} -> env.FFPROBE_PATH
    [] resolved.tool = "piper" -> env.PIPER_PATH
    [] OTHER -> env.WHISPER_CPP_PATH
FixedListOfCall ==
  CASE resolved.tool = "ffmpeg" -> commonLocations("ffmpeg")
    [] resolved.tool = "ffprobe" -> commonLocations("ffprobe")
    [] resolved.tool = "piper" -> commonLocations("piper")
    [] resolved.tool = "gemini-ffmpeg" -> geminiLocations("ffmpeg")
    [] resolved.tool = "gemini-ffprobe" -> geminiLocations("ffprobe")
    [] OTHER -> whisperLocations
BareNameOfCall ==
  CASE resolved.tool \in {"ffmpeg", "gemini-ffmpeg"} -> "ffmpeg"
    [] resolved.tool \in {"ffprobe", "gemini-ffprobe"} -> "ffprobe"
    [] resolved.tool = "piper" -> "piper"
    [] OTHER -> "whisper"

\* C17 as stated: every resolver, the speech engine's included, returns
\* the override when it exists, else the first existing fixed candidate,
\* else the bare tool name, and never reports the tool as absent.
C17_ResolverNeverAbsent ==
  resolved.tool # "" =>
    /\ resolved.path =
         ExpectedResolution(OverrideOfCall, FixedListOfCall, toolFiles,
                            BareNameOfCall)
    /\ resolved.path # Absent

\* C17 amended: the transcoder, prober and synth-engine resolvers return
\* the override when it exists, else the first existing fixed candidate,
\* else the bare tool name; the speech-engine resolver returns the
\* override when it exists, else the first existing path of its list,
\* and otherwise reports the engine as absent.
C17_ResolverOrder ==
  resolved.tool # "" =>
    resolved.path =
      ExpectedResolution(OverrideOfCall, FixedListOfCall, toolFiles,
                         IF resolved.tool = "whisper" THEN Absent
                         ELSE BareNameOfCall)

\* C17 witness: an override that is set but missing, a later fixed
\* candidate on disk, and the resolver returned that candidate.
C17_Witness ==
  /\ resolved.tool = "ffmpeg"
  /\ env.FFMPEG_PATH # Unset /\ env.FFMPEG_PATH \notin toolFiles
  /\ "C:/ffmpeg/bin/ffmpeg.exe" \notin toolFiles
  /\ resolved.path = "C:/Program Files/ffmpeg/bin/ffmpeg.exe"


(***************************************************************************)
(* Transcription: transcribeWordsWhisperCpp and transcribeWithWhisperCpp   *)
(* (server/subtitles.ts)                                                   *)
(***************************************************************************)
\* The files a transcription call names after its timestamp.
jsonOf(wav) == Path("aud", wav.ts, "json")
srtOf(wav) == Path("aud", wav.ts, "srt")

\* A caller invokes transcribeWordsWhisperCpp(videoPath, lang, workdir).
CallTranscribeWords(r) ==
  /\ pc[r] = "idle"
  /\ pc' = [pc EXCEPT ![r] = "words-called"]
  /\ UNCHANGED <<fsVars, cutArgs, cutPath, cutReturn, error, spawned, wrote,
                 lastTool, pipeVars>>

\* A caller invokes transcribeWithWhisperCpp(videoPath, lang, workdir).
CallTranscribeSrt(r) ==
  /\ pc[r] = "idle"
  /\ pc' = [pc EXCEPT ![r] = "srt-called"]
  /\ UNCHANGED <<fsVars, cutArgs, cutPath, cutReturn, error, spawned, wrote,
                 lastTool, pipeVars>>

\* Lines 45-62 and 138-154: the configuration test, the wav name, the audio
\* extraction is started. fn is "words" or "srt".
transcribeBegin(r, fn) ==
  /\ pc[r] = fn \o "-called"
  /\ IF ~whisperConfigured(env, toolFiles)
     THEN /\ pc' = [pc EXCEPT ![r] = fn \o "-threw"]
          /\ transError' = [transError EXCEPT ![r] = "not-configured"]
          /\ UNCHANGED <<audPath, spawned>>
     ELSE /\ audPath' = [audPath EXCEPT ![r] = Path("aud", now, "wav")]
          /\ spawned' = [spawned EXCEPT ![r] = @ + 1]
          /\ pc' = [pc EXCEPT ![r] = fn \o "-audio"]
          /\ UNCHANGED transError
  /\ UNCHANGED <<fsVars, cutArgs, cutPath, cutReturn, error, wrote, lastTool,
                 envVars, resVars, routeVars, burnVars>>

TranscribeWordsBegin(r) == transcribeBegin(r, "words")
TranscribeSrtBegin(r) == transcribeBegin(r, "srt")

\* Lines 147-163: the audio extraction ends; if it failed the call throws
\* and what was written of the wav stays; otherwise the speech engine is
\* started.
TranscribeWordsAudioEnd(r) ==
  /\ pc[r] = "words-audio"
  /\ \E o \in toolOutcomesFor(resolveFFmpeg(env, toolFiles), toolFiles) :
       /\ lastTool' = [lastTool EXCEPT ![r] = o]
       /\ files' = IF toolWroteOutput(o) THEN files \cup {audPath[r]}
                   ELSE files
       /\ wrote' = [wrote EXCEPT ![r] =
                      IF toolWroteOutput(o) THEN @ \cup {audPath[r]} ELSE @]
       /\ IF toolSucceeded(o)
          THEN /\ spawned' = [spawned EXCEPT ![r] = @ + 1]
               /\ pc' = [pc EXCEPT ![r] = "words-whisper"]
               /\ UNCHANGED transError
          ELSE /\ pc' = [pc EXCEPT ![r] = "words-threw"]
               /\ transError' = [transError EXCEPT ![r] = "audio-failed"]
               /\ UNCHANGED spawned
  /\ UNCHANGED <<now, cutArgs, cutPath, cutReturn, error, audPath, envVars,
                 resVars, routeVars, burnVars>>

\* Lines 55-78: the same for transcribeWithWhisperCpp, which also throws
\* when the wav is not there.
TranscribeSrtAudioEnd(r) ==
  /\ pc[r] = "srt-audio"
  /\ \E o \in toolOutcomesFor(resolveFFmpeg(env, toolFiles), toolFiles) :
       LET disk == IF toolWroteOutput(o) THEN files \cup {audPath[r]}
                   ELSE files
       IN  /\ lastTool' = [lastTool EXCEPT ![r] = o]
           /\ files' = disk
           /\ wrote' = [wrote EXCEPT ![r] =
                          IF toolWroteOutput(o) THEN @ \cup {audPath[r]}
                          ELSE @]
           /\ IF ~toolSucceeded(o)
              THEN /\ pc' = [pc EXCEPT ![r] = "srt-threw"]
                   /\ transError' = [transError EXCEPT ![r] = "audio-failed"]
                   /\ UNCHANGED spawned
              ELSE IF audPath[r] \notin disk
                   THEN /\ pc' = [pc EXCEPT ![r] = "srt-threw"]
                        /\ transError' = [transError EXCEPT ![r] = "no-audio"]
                        /\ UNCHANGED spawned
                   ELSE /\ spawned' = [spawned EXCEPT ![r] = @ + 1]
                        /\ pc' = [pc EXCEPT ![r] = "srt-whisper"]
                        /\ UNCHANGED transError
  /\ UNCHANGED <<now, cutArgs, cutPath, cutReturn, error, audPath, envVars,
                 resVars, routeVars, burnVars>>

\* Lines 157-199 of transcribeWordsWhisperCpp: the speech engine ends. If
\* it failed the call throws and the wav stays. Otherwise the JSON, if there
\* is one, is parsed into words (none when it does not parse), the wav and
\* the JSON are removed and the words are returned sorted by start.
TranscribeWordsEnd(r) ==
  /\ pc[r] = "words-whisper"
  /\ \E o \in toolOutcomesFor(resolveWhisperCpp(env, toolFiles), toolFiles) :
       LET jsonPath == jsonOf(audPath[r])
           disk == IF toolWroteOutput(o) THEN files \cup {jsonPath} ELSE files
       IN  /\ lastTool' = [lastTool EXCEPT ![r] = o]
           /\ wrote' = [wrote EXCEPT ![r] =
                          IF toolWroteOutput(o) THEN @ \cup {jsonPath} ELSE @]
           /\ IF ~toolSucceeded(o)
              THEN /\ files' = disk
                   /\ pc' = [pc EXCEPT ![r] = "words-threw"]
                   /\ transError' = [transError EXCEPT ![r] = "engine-failed"]
                   /\ UNCHANGED routeWords
              ELSE \E parsed \in (IF jsonPath \in disk THEN TranscribedWords
                                  ELSE {<<>>}) :
                     /\ files' = disk \ {audPath[r], jsonPath}
                     /\ routeWords' =
                          [routeWords EXCEPT ![r] = sortByStart(parsed)]
                     /\ pc' = [pc EXCEPT ![r] = "words-returned"]
                     /\ UNCHANGED transError
  /\ UNCHANGED <<now, cutArgs, cutPath, cutReturn, error, spawned, audPath,
                 envVars, resVars, burnVars>>
  /\ UNCHANGED <<routeOutput, assContent, rawSubtitles, subtitles, processed>>

\* Lines 78-91 of transcribeWithWhisperCpp: the speech engine, asked for an
\* SRT and a JSON, ends. If it failed, or wrote no SRT, the call throws and
\* every file stays. Otherwise the SRT is read, the wav and the SRT are
\* removed and the trimmed text is returned (the text itself is not kept
\* here: no route uses it).
TranscribeSrtEnd(r) ==
  /\ pc[r] = "srt-whisper"
  /\ \E o \in toolOutcomesFor(resolveWhisperCpp(env, toolFiles), toolFiles),
        jsonToo \in BOOLEAN :
       LET srtPath == srtOf(audPath[r])
           written == IF toolWroteOutput(o)
                      THEN {srtPath} \cup
                           (IF jsonToo THEN {jsonOf(audPath[r])} ELSE {})
                      ELSE {}
           disk == files \cup written
       IN  /\ lastTool' = [lastTool EXCEPT ![r] = o]
           /\ wrote' = [wrote EXCEPT ![r] = @ \cup written]
           /\ IF ~toolSucceeded(o)
              THEN /\ files' = disk
                   /\ pc' = [pc EXCEPT ![r] = "srt-threw"]
                   /\ transError' = [transError EXCEPT ![r] = "engine-failed"]
              ELSE IF srtPath \notin disk
                   THEN /\ files' = disk
                        /\ pc' = [pc EXCEPT ![r] = "srt-threw"]
                        /\ transError' = [transError EXCEPT ![r] = "no-srt"]
                   ELSE /\ files' = disk \ {audPath[r], srtPath}
                        /\ pc' = [pc EXCEPT ![r] = "srt-returned"]
                        /\ UNCHANGED transError
  /\ UNCHANGED <<now, cutArgs, cutPath, cutReturn, error, spawned, audPath,
                 envVars, resVars, routeVars, burnVars>>

\* Deployments: the speech engine configured; its binary missing; its model
\* unset; its model file missing; the transcoder at an explicit path.
Deployment(e, tools) == [env |-> e, tools |-> tools]
Deployments ==
  { Deployment(PlainEnv, PlainTools),
    Deployment(PlainEnv, {ModelFile}),
    Deployment([PlainEnv EXCEPT !.WHISPER_CPP_MODEL = Unset], PlainTools),
    Deployment(PlainEnv, {"./whisper/main.exe"}),
    Deployment([PlainEnv EXCEPT !.FFMPEG_PATH = "/opt/ffmpeg"],
               PlainTools \cup {"/opt/ffmpeg"}) }

TranscribeInit ==
  /\ SelIdle /\ SrtIdle /\ BuildIdle /\ ExtIdle /\ InvIdle /\ EditIdle /\ RunsIdle
  /\ keepSrt = FALSE
  /\ \E d \in Deployments : env = d.env /\ toolFiles = d.tools

TranscribeNext ==
  \/ Tick /\ UNCHANGED <<selVars, srtVars, buildVars, extVars, invVars, editVars, pipeVars>>
  \/ \E r \in Runs : CallTranscribeWords(r) /\ UNCHANGED <<selVars, srtVars, buildVars, extVars, invVars, editVars>>
  \/ \E r \in Runs : CallTranscribeSrt(r) /\ UNCHANGED <<selVars, srtVars, buildVars, extVars, invVars, editVars>>
  \/ \E r \in Runs : TranscribeWordsBegin(r) /\ UNCHANGED <<selVars, srtVars, buildVars, extVars, invVars, editVars>>
  \/ \E r \in Runs : TranscribeSrtBegin(r) /\ UNCHANGED <<selVars, srtVars, buildVars, extVars, invVars, editVars>>
  \/ \E r \in Runs : TranscribeWordsAudioEnd(r) /\ UNCHANGED <<selVars, srtVars, buildVars, extVars, invVars, editVars>>
  \/ \E r \in Runs : TranscribeSrtAudioEnd(r) /\ UNCHANGED <<selVars, srtVars, buildVars, extVars, invVars, editVars>>
  \/ \E r \in Runs : TranscribeWordsEnd(r) /\ UNCHANGED <<selVars, srtVars, buildVars, extVars, invVars, editVars>>
  \/ \E r \in Runs : TranscribeSrtEnd(r) /\ UNCHANGED <<selVars, srtVars, buildVars, extVars, invVars, editVars>>

\* Concurrent transcription calls into one working directory.
SpecTranscribe == TranscribeInit /\ [][TranscribeNext]_vars

(***************************************************************************)
(* Claims about transcription                                              *)
(***************************************************************************)
\* The deployment lacks the speech engine: no candidate binary exists, or
\* the model path is unset, or the model file does not exist.
EngineNotConfigured ==
  \/ /\ env.WHISPER_CPP_PATH \notin toolFiles
     /\ \A i \in 1..Len(whisperLocations) : whisperLocations[i] \notin toolFiles
  \/ env.WHISPER_CPP_MODEL = Unset
  \/ env.WHISPER_CPP_MODEL \notin toolFiles

\* Where a run stands once its transcription call has passed its first
\* statement, and where it stands once the call is over.
TransStarted ==
  { "words-audio", "words-whisper", "words-returned", "words-threw",
    "srt-audio", "srt-whisper", "srt-returned", "srt-threw" }
TransOver == {"words-returned", "words-threw", "srt-returned", "srt-threw"}

\* C15: when the speech-engine binary cannot be resolved, or the model path
\* is unset or does not exist, extractWords and extractSrt fail with the
\* not-configured error before any external process is started and before
\* any temp file is created; a configured deployment never gets that error.
C15_NotConfiguredFailsFast ==
  \A r \in Runs :
    pc[r] \in TransStarted =>
      IF EngineNotConfigured
      THEN /\ pc[r] \in {"words-threw", "srt-threw"}
           /\ transError[r] = "not-configured"
           /\ spawned[r] = 0
           /\ wrote[r] = {}
           /\ audPath[r] = NoPath
      ELSE transError[r] # "not-configured"

\* C15 witness: the model path is set but the file is missing, and a
\* transcription call has failed with the not-configured error.
C15_Witness ==
  \E r \in Runs :
    /\ pc[r] = "srt-threw"
    /\ transError[r] = "not-configured"
    /\ env.WHISPER_CPP_MODEL # Unset
    /\ env.WHISPER_CPP_MODEL \notin toolFiles
    /\ resolveWhisperCpp(env, toolFiles) # Absent

\* C19: once extractWords or extractSrt has returned or failed, none of the
\* temp files it created (the wav, the engine's JSON and SRT) exists.
C19_TempFilesRemoved ==
  \A r \in Runs :
    pc[r] \in TransOver =>
      wrote[r] \cap files
        \cap {audPath[r], jsonOf(audPath[r]), srtOf(audPath[r])} = {}


(***************************************************************************)
(* addSubtitlesToVideo (server/video-processor.ts)                         *)
(***************************************************************************)
\* The prefix addSubtitlesToVideo looks for, line 111.
AssMarker == <<"[", "Script Info]">>

\* s.startsWith(prefix), token by token.
startsWith(s, prefix) ==
  /\ Len(s) >= Len(prefix)
  /\ \A i \in 1..Len(prefix) : s[i] = prefix[i]

\* Line 106 without the trim: only the empty string is blank.
subtitlesBlankNoTrim(content) == content = <<>>

\* Line 106: !subtitlesContent || subtitlesContent.trim() === ""
subtitlesBlank(content) == content = <<>> \/ Trim(content) = <<>>

\* Line 111: subtitlesContent.trim().startsWith("[Script Info]")
isAss(content) == startsWith(Trim(content), AssMarker)

\* Lines 160-162 left out: the input clip is kept.
unlinkInputNever(disk, videoPath, outPath) == disk

\* Lines 160-162: the input clip is removed unless it is the output.
unlinkInput(disk, videoPath, outPath) ==
  IF videoPath \in disk /\ videoPath # outPath THEN disk \ {videoPath}
  ELSE disk

\* Lines 164-166: the subtitle file is removed unless KEEP_SRT is '1'.
unlinkSubtitle(disk, srtPath, keep) ==
  IF srtPath \in disk /\ ~keep THEN disk \ {srtPath} ELSE disk

\* Lines 105-154: a blank payload returns the input path at once; any other
\* payload is written to a file named after the clock, with the extension
\* of its dialect, and the transcoder is started.
AddSubtitlesBegin(r) ==
  /\ pc[r] = "burn-called"
  /\ LET content == burnArgs[r].subtitlesContent
         videoPath == burnArgs[r].videoPath
         timestamp == now
         ass == isAss(content)
         srtPath == Path("subtitles", timestamp, IF ass THEN "ass" ELSE "srt")
     IN  IF subtitlesBlank(content)
         THEN /\ burnReturn' = [burnReturn EXCEPT ![r] =
                                  [path |-> videoPath,
                                   existed |-> videoPath \in files,
                                   inputLeft |-> videoPath \in files,
                                   subtitleLeft |-> FALSE]]
              /\ pc' = [pc EXCEPT ![r] = "burn-returned"]
              /\ UNCHANGED <<files, wrote, spawned, subPath, useAss, burnPath>>
         ELSE /\ useAss' = [useAss EXCEPT ![r] = ass]
              /\ subPath' = [subPath EXCEPT ![r] = srtPath]
              /\ files' = files \cup {srtPath}
              /\ wrote' = [wrote EXCEPT ![r] = @ \cup {srtPath}]
              /\ burnPath' = [burnPath EXCEPT ![r] =
                                Path("with_subtitles", timestamp, "mp4")]
              /\ spawned' = [spawned EXCEPT ![r] = @ + 1]
              /\ pc' = [pc EXCEPT ![r] = "burn-running"]
              /\ UNCHANGED burnReturn
  /\ UNCHANGED <<now, cutArgs, cutPath, cutReturn, error, lastTool, burnArgs,
                 envVars, resVars, routeVars, transVars>>

\* Lines 154-179: the transcoder ends. If it succeeded the input clip is
\* removed, the subtitle file is removed unless KEEP_SRT is '1', and the
\* output must exist; otherwise the error is translated and thrown.
AddSubtitlesEnd(r) ==
  /\ pc[r] = "burn-running"
  /\ \E o \in toolOutcomesFor(resolveFFmpeg(env, toolFiles), toolFiles) :
       LET videoPath == burnArgs[r].videoPath
           disk == IF toolWroteOutput(o) THEN files \cup {burnPath[r]}
                   ELSE files
           cleaned == unlinkSubtitle(unlinkInput(disk, videoPath, burnPath[r]),
                                     subPath[r], keepSrt)
       IN  /\ lastTool' = [lastTool EXCEPT ![r] = o]
           /\ wrote' = [wrote EXCEPT ![r] =
                          IF toolWroteOutput(o) THEN @ \cup {burnPath[r]}
                          ELSE @]
           /\ IF ~toolSucceeded(o)
              THEN /\ files' = disk
                   /\ pc' = [pc EXCEPT ![r] = "burn-threw"]
                   /\ error' = [error EXCEPT ![r] =
                                  IF messageSaysNotFound(o)
                                  THEN "ffmpeg-not-installed"
                                  ELSE "burn-failed"]
                   /\ UNCHANGED burnReturn
              ELSE /\ files' = cleaned
                   /\ IF burnPath[r] \in cleaned
                      THEN /\ burnReturn' =
                                [burnReturn EXCEPT ![r] =
                                   [path |-> burnPath[r],
                                    existed |-> burnPath[r] \in cleaned,
                                    inputLeft |-> videoPath \in cleaned,
                                    subtitleLeft |-> subPath[r] \in cleaned]]
                           /\ pc' = [pc EXCEPT ![r] = "burn-returned"]
                           /\ UNCHANGED error
                      ELSE /\ pc' = [pc EXCEPT ![r] = "burn-threw"]
                           /\ error' = [error EXCEPT ![r] = "burn-failed"]
                           /\ UNCHANGED burnReturn
  /\ UNCHANGED <<now, cutArgs, cutPath, cutReturn, spawned, burnArgs, subPath,
                 useAss, burnPath, envVars, resVars, routeVars, transVars>>

\* Clips a caller may hand to addSubtitlesToVideo: a cut, and an earlier
\* burn-in output whose name the next output may repeat.
ClipVideo == Path("cut", 0, "mp4")
PriorBurn == Path("with_subtitles", 1, "mp4")

\* Payloads a caller may hand over: none, blank ones, a subtitle text, a
\* script that opens with the marker, the builder's output.
SrtPayload == <<"1", NL, "c0", SP, HY, HY, GT, SP, "c1", NL, "w1", NL>>
BurnPayloads ==
  { <<>>, <<SP>>, <<NL, SP, NL>>, SrtPayload,
    <<SP, "[", "Script Info]", NL, "ScriptType: v4.00+", NL>>,
    buildAssFromWords(<<>>, TRUE) }

\* A caller invokes addSubtitlesToVideo(videoPath, subtitlesContent, dir).
CallAddSubtitles(r) ==
  /\ pc[r] = "idle"
  /\ \E v \in {ClipVideo, PriorBurn}, content \in BurnPayloads :
       burnArgs' = [burnArgs EXCEPT ![r] =
                      [videoPath |-> v, subtitlesContent |-> content]]
  /\ pc' = [pc EXCEPT ![r] = "burn-called"]
  /\ UNCHANGED <<fsVars, cutArgs, cutPath, cutReturn, error, spawned, wrote,
                 lastTool, subPath, useAss, burnPath, burnReturn, envVars,
                 resVars, routeVars, transVars>>

BurnInit ==
  /\ SelIdle /\ SrtIdle /\ BuildIdle /\ ExtIdle /\ InvIdle /\ EditIdle /\ CallsIdle
  /\ files = {UploadedVideo, ClipVideo, PriorBurn}
  /\ keepSrt \in BOOLEAN
  /\ env = PlainEnv /\ toolFiles = PlainTools

BurnNext ==
  \/ Tick /\ UNCHANGED <<selVars, srtVars, buildVars, extVars, invVars, editVars, pipeVars>>
  \/ \E r \in Runs : CallAddSubtitles(r) /\ UNCHANGED <<selVars, srtVars, buildVars, extVars, invVars, editVars>>
  \/ \E r \in Runs : AddSubtitlesBegin(r) /\ UNCHANGED <<selVars, srtVars, buildVars, extVars, invVars, editVars>>
  \/ \E r \in Runs : AddSubtitlesEnd(r) /\ UNCHANGED <<selVars, srtVars, buildVars, extVars, invVars, editVars>>

\* Concurrent addSubtitlesToVideo calls into one directory.
SpecBurn == BurnInit /\ [][BurnNext]_vars

(***************************************************************************)
(* Claims about addSubtitlesToVideo                                        *)
(***************************************************************************)
\* The payload has no character that is not white space.
OnlyWhiteSpace(content) == \A i \in 1..Len(content) : content[i] \in {SP, NL}

\* C11: addSubtitlesToVideo called with an empty or whitespace-only text
\* returns the input path, starts no external process, and creates,
\* modifies or deletes no file.
C11_BlankBurnInIsNoOp ==
  [][ \A r \in Runs :
        (pc[r] = "burn-called" /\ pc'[r] # "burn-called"
           /\ OnlyWhiteSpace(burnArgs[r].subtitlesContent))
        => /\ pc'[r] = "burn-returned"
           /\ burnReturn'[r].path = burnArgs[r].videoPath
           /\ files' = files
           /\ spawned'[r] = spawned[r]
           /\ wrote'[r] = wrote[r]
           /\ subPath'[r] = subPath[r] ]_vars

\* C11 witness: a whitespace-only payload was handed over and the call
\* has returned the input path.
C11_Witness ==
  \E r \in Runs :
    /\ pc[r] = "burn-returned"
    /\ burnArgs[r].subtitlesContent = <<NL, SP, NL>>
    /\ burnReturn[r].path = burnArgs[r].videoPath

\* C20: when addSubtitlesToVideo returns for a non-blank payload, the
\* returned output exists, the input clip no longer exists if its path
\* differs from the output's, and the subtitle file no longer exists
\* unless KEEP_SRT is '1'.
C20_BurnInCleansUp ==
  \A r \in Runs :
    (pc[r] = "burn-returned"
       /\ ~OnlyWhiteSpace(burnArgs[r].subtitlesContent)) =>
      /\ burnReturn[r].path = burnPath[r]
      /\ burnReturn[r].existed
      /\ burnArgs[r].videoPath # burnReturn[r].path => ~burnReturn[r].inputLeft
      /\ ~keepSrt => ~burnReturn[r].subtitleLeft

\* C20 witness: a burn-in returned with KEEP_SRT unset: the output is
\* there, the input clip and the subtitle file are gone.
C20_Witness ==
  \E r \in Runs :
    /\ pc[r] = "burn-returned"
    /\ burnArgs[r].subtitlesContent = SrtPayload
    /\ ~keepSrt
    /\ burnReturn[r].path \in files
    /\ burnArgs[r].videoPath \notin files
    /\ subPath[r] \notin files


(***************************************************************************)
(* POST /api/cuts/:cutId/process: cut, transcribe, build or fetch the      *)
(* subtitles, burn them in, store the processed cut (server/routes.ts)     *)
(***************************************************************************)
PipelineRuns == {"r1"}

\* What generateSubtitles may return: "" (error, SEM_FALAS) or the trimmed
\* text of the oracle's answer.
AiSubtitleTexts ==
  {<<>>} \cup
  { Trim(renderDoc(sh, "none")) : sh \in [1..1 -> BlockShapes] }

\* Lines 897-924 of the route: the stored cut and video give cutVideo its
\* arguments.
ProcessCutRequest(r) ==
  /\ pc[r] = "idle"
  /\ \E args \in CutArgs : cutArgs' = [cutArgs EXCEPT ![r] = args]
  /\ pc' = [pc EXCEPT ![r] = "cut-called"]
  /\ UNCHANGED <<fsVars, cutPath, cutReturn, error, spawned, wrote, lastTool,
                 pipeVars>>

\* Lines 918-931: cutVideo returned; its path is the route's outputPath and
\* the clip to transcribe.
RouteTranscribe(r) ==
  /\ pc[r] = "cut-returned"
  /\ routeOutput' = [routeOutput EXCEPT ![r] = cutReturn[r].path]
  /\ pc' = [pc EXCEPT ![r] = "words-called"]
  /\ UNCHANGED <<fsVars, cutArgs, cutPath, cutReturn, error, spawned, wrote,
                 lastTool, envVars, resVars, transVars, burnVars>>
  /\ UNCHANGED <<routeWords, assContent, rawSubtitles, subtitles, processed>>

\* Lines 931-933: the words came back; the script is built from them.
RouteBuildAss(r) ==
  /\ pc[r] = "words-returned"
  /\ assContent' = [assContent EXCEPT ![r] =
                      buildAssFromWords(routeWords[r],
                                        cutArgs[r].format = "vertical")]
  /\ pc' = [pc EXCEPT ![r] = "subtitles-ready"]
  /\ UNCHANGED <<fsVars, cutArgs, cutPath, cutReturn, error, spawned, wrote,
                 lastTool, envVars, resVars, transVars, burnVars>>
  /\ UNCHANGED <<routeOutput, routeWords, rawSubtitles, subtitles, processed>>

\* Lines 934-939: the transcription threw; the oracle is asked for the
\* subtitles.
GenerateSubtitles(r) ==
  /\ pc[r] = "words-threw"
  /\ \E text \in AiSubtitleTexts :
       rawSubtitles' = [rawSubtitles EXCEPT ![r] = text]
  /\ pc' = [pc EXCEPT ![r] = "subtitles-ready"]
  /\ UNCHANGED <<fsVars, cutArgs, cutPath, cutReturn, error, spawned, wrote,
                 lastTool, envVars, resVars, transVars, burnVars>>
  /\ UNCHANGED <<routeOutput, routeWords, assContent, subtitles, processed>>

\* Line 942 without the normaliser: assContent || rawSubtitles
chooseSubtitlesUnsanitized(ass, raw) == IF ass # <<>> THEN ass ELSE raw

\* Line 942: assContent || sanitizeSrt(rawSubtitles)
chooseSubtitles(ass, raw) == IF ass # <<>> THEN ass ELSE sanitizeSrt(raw)

\* Lines 942-948: the subtitles are chosen; with none the burn-in is
\* skipped, otherwise addSubtitlesToVideo is called with them.
RouteChooseSubtitles(r) ==
  /\ pc[r] = "subtitles-ready"
  /\ LET content == chooseSubtitles(assContent[r], rawSubtitles[r])
     IN  /\ subtitles' = [subtitles EXCEPT ![r] = content]
         /\ IF content = <<>>
            THEN /\ pc' = [pc EXCEPT ![r] = "persist"]
                 /\ UNCHANGED burnArgs
            ELSE /\ burnArgs' = [burnArgs EXCEPT ![r] =
                                   [videoPath |-> routeOutput[r],
                                    subtitlesContent |-> content]]
                 /\ pc' = [pc EXCEPT ![r] = "burn-called"]
  /\ UNCHANGED <<fsVars, cutArgs, cutPath, cutReturn, error, spawned, wrote,
                 lastTool, envVars, resVars, transVars>>
  /\ UNCHANGED <<subPath, useAss, burnPath, burnReturn>>
  /\ UNCHANGED <<routeOutput, routeWords, assContent, rawSubtitles, processed>>

\* subtitles || null: the empty set stands for null.
orNull(text) == IF text = <<>> THEN {} ELSE {text}

\* Lines 945-957: outputPath takes what the burn-in returned, if it ran,
\* and the processed cut is stored and sent back.
CreateProcessedCut(r) ==
  /\ pc[r] \in {"persist", "burn-returned"}
  /\ LET outputPath == IF pc[r] = "burn-returned" THEN burnReturn[r].path
                       ELSE routeOutput[r]
     IN  /\ routeOutput' = [routeOutput EXCEPT ![r] = outputPath]
         /\ processed' = [processed EXCEPT ![r] =
                            [outputPath |-> outputPath,
                             subtitles |-> orNull(subtitles[r]),
                             format |-> cutArgs[r].format]]
  /\ pc' = [pc EXCEPT ![r] = "done"]
  /\ UNCHANGED <<fsVars, cutArgs, cutPath, cutReturn, error, spawned, wrote,
                 lastTool, envVars, resVars, transVars, burnVars>>
  /\ UNCHANGED <<routeWords, assContent, rawSubtitles, subtitles>>

PipeInit ==
  /\ SelIdle /\ SrtIdle /\ BuildIdle /\ ExtIdle /\ InvIdle /\ EditIdle /\ RunsIdle
  /\ keepSrt \in BOOLEAN
  /\ \E d \in Deployments : env = d.env /\ toolFiles = d.tools

PipeNext ==
  \/ Tick /\ UNCHANGED <<selVars, srtVars, buildVars, extVars, invVars, editVars, pipeVars>>
  \/ \E r \in PipelineRuns : ProcessCutRequest(r) /\ UNCHANGED <<selVars, srtVars, buildVars, extVars, invVars, editVars>>
  \/ \E r \in PipelineRuns :
       CutVideoBegin(r) /\ UNCHANGED <<selVars, srtVars, buildVars, extVars, invVars, editVars, pipeVars>>
  \/ \E r \in PipelineRuns :
       CutVideoEnd(r) /\ UNCHANGED <<selVars, srtVars, buildVars, extVars, invVars, editVars, pipeVars>>
  \/ \E r \in PipelineRuns : RouteTranscribe(r) /\ UNCHANGED <<selVars, srtVars, buildVars, extVars, invVars, editVars>>
  \/ \E r \in PipelineRuns : TranscribeWordsBegin(r) /\ UNCHANGED <<selVars, srtVars, buildVars, extVars, invVars, editVars>>
  \/ \E r \in PipelineRuns : TranscribeWordsAudioEnd(r) /\ UNCHANGED <<selVars, srtVars, buildVars, extVars, invVars, editVars>>
  \/ \E r \in PipelineRuns : TranscribeWordsEnd(r) /\ UNCHANGED <<selVars, srtVars, buildVars, extVars, invVars, editVars>>
  \/ \E r \in PipelineRuns : RouteBuildAss(r) /\ UNCHANGED <<selVars, srtVars, buildVars, extVars, invVars, editVars>>
  \/ \E r \in PipelineRuns : GenerateSubtitles(r) /\ UNCHANGED <<selVars, srtVars, buildVars, extVars, invVars, editVars>>
  \/ \E r \in PipelineRuns : RouteChooseSubtitles(r) /\ UNCHANGED <<selVars, srtVars, buildVars, extVars, invVars, editVars>>
  \/ \E r \in PipelineRuns : AddSubtitlesBegin(r) /\ UNCHANGED <<selVars, srtVars, buildVars, extVars, invVars, editVars>>
  \/ \E r \in PipelineRuns : AddSubtitlesEnd(r) /\ UNCHANGED <<selVars, srtVars, buildVars, extVars, invVars, editVars>>
  \/ \E r \in PipelineRuns : CreateProcessedCut(r) /\ UNCHANGED <<selVars, srtVars, buildVars, extVars, invVars, editVars>>

\* One run of the processing route.
SpecPipeline == PipeInit /\ [][PipeNext]_vars

(***************************************************************************)
(* Claims about the route                                                  *)
(***************************************************************************)
\* C5: the burn-in treats a payload as a styled script exactly when its
\* trimmed text begins with the script header marker, and every payload the
\* word-aligned builder produced is written to disk as a script (extension
\* ass), so that its style block and per-word timing reach the renderer.
C5_BuilderOutputBurnedAsScript ==
  \A r \in Runs :
    subPath[r] # NoPath =>
      /\ useAss[r] <=> startsWith(Trim(subtitles[r]), AssMarker)
      /\ subPath[r].ext = (IF useAss[r] THEN "ass" ELSE "srt")
      /\ assContent[r] # <<>> => (useAss[r] /\ subPath[r].ext = "ass")

\* C16: when cutVideo or addSubtitlesToVideo cannot spawn the transcoder
\* because the binary is absent, or the tool's message carries the
\* "not recognized"/"not found" signature, the call fails with the
\* tool-not-installed error and not with the generic failure.
C16_MissingToolReported ==
  \A r \in Runs :
    (pc[r] \in {"cut-threw", "burn-threw"}
       /\ lastTool[r] \in {"spawn-enoent", "failed-not-found"}) =>
      error[r] = "ffmpeg-not-installed"

\* Where a run of the route stands once the subtitles have been chosen.
AfterChoice ==
  { "persist", "burn-called", "burn-running", "burn-returned", "burn-threw",
    "done" }

\* C18: when a run has no usable subtitles (no script was built and the
\* normaliser returns the empty string), it still succeeds: the burn-in is
\* not called, no subtitle file is written, and the stored artifact has the
\* cut file as outputPath and null subtitles.
C18_NoSubtitlesSkipsBurnIn ==
  \A r \in Runs :
    (pc[r] \in AfterChoice /\ assContent[r] = <<>>
       /\ sanitizeSrt(rawSubtitles[r]) = <<>>) =>
      /\ pc[r] \in {"persist", "done"}
      /\ burnArgs[r] = NoBurnArgs
      /\ subPath[r] = NoPath
      /\ \A f \in wrote[r] : f.kind # "subtitles"
      /\ pc[r] = "done" =>
           /\ processed[r].outputPath = cutReturn[r].path
           /\ processed[r].subtitles = {}

\* C18 witness: the oracle gave a text, the normaliser rejected it, and the
\* run stored the cut file with null subtitles.
C18_Witness ==
  \E r \in Runs :
    /\ pc[r] = "done"
    /\ rawSubtitles[r] # <<>>
    /\ sanitizeSrt(rawSubtitles[r]) = <<>>
    /\ processed[r].outputPath = cutPath[r]
    /\ processed[r].subtitles = {}
    /\ spawned[r] = 1

\* Where a run stands once the word-level extraction is over and the route
\* has its subtitle candidates.
AfterExtraction == AfterChoice \cup {"subtitles-ready"}

\* C21: whenever the word-level extraction of a run yields no words (it
\* threw, or it returned an empty array), the route does not keep a built
\* script: the subtitles it decides the burn-in on are the normalised text
\* of the AI fallback.
C21_NoWordsFallsBackToAi ==
  \A r \in Runs :
    (pc[r] \in AfterExtraction /\ routeWords[r] = <<>>) =>
      /\ assContent[r] = <<>>
      /\ pc[r] \in AfterChoice =>
           subtitles[r] = sanitizeSrt(rawSubtitles[r])

\* Where a run stands while the word-level extraction is being made.
ExtractionPcs ==
  {"words-called", "words-audio", "words-whisper", "words-returned",
   "words-threw"}

\* Where a run stands from the call of the burn-in on.
BurnPcs == {"burn-called", "burn-running", "burn-returned", "burn-threw"}

valueOr(x, d) == IF x = {} THEN d ELSE CHOOSE v \in x : TRUE

\* A word of seg.words and a segment of obj.segments as JSON.parse gives
\* them. hasWords: Array.isArray(seg.words); hasText: typeof seg.text is
\* 'string'; parts: seg.text.trim().split(/\s+/).filter(Boolean).
JsonWord(start, end, text) == [start |-> start, end |-> end, text |-> text]
Segment(start, end, hasWords, words, hasText, parts) ==
  [start |-> start, end |-> end, hasWords |-> hasWords, words |-> words,
   hasText |-> hasText, parts |-> parts]

\* Lines 174-179: the words of seg.words, the ones with an empty text left
\* out.
RECURSIVE wordsVerbatim(_, _)
wordsVerbatim(ws, segStart) ==
  IF ws = <<>> THEN <<>>
  ELSE LET w == Head(ws)
           wStart == valueOr(w.start, segStart)
           wEnd == valueOr(w.end, wStart + 300)
       IN  (IF w.text # "" THEN <<Word(wStart, wEnd, w.text)>> ELSE <<>>)
             \o wordsVerbatim(Tail(ws), segStart)

\* Lines 184-190: parts from the i-th on, t being where the i-th starts.
RECURSIVE wordsSynthesized(_, _, _, _)
wordsSynthesized(parts, i, t, slot) ==
  IF i > Len(parts) THEN <<>>
  ELSE <<Word(t, t + slot, parts[i])>>
         \o wordsSynthesized(parts, i + 1, t + slot, slot)

\* Lines 171-191: the words one segment contributes. The inputs below make
\* the duration a multiple of the number of parts, so that slot is exact.
segmentWords(seg) ==
  LET segStart == valueOr(seg.start, 0)
  IN  IF seg.hasWords THEN wordsVerbatim(seg.words, segStart)
      ELSE IF seg.hasText
      THEN LET segDuration == Max(10, valueOr(seg.end, segStart) - segStart)
               slot == segDuration \div Max(1, Len(seg.parts))
           IN  wordsSynthesized(seg.parts, 1, segStart, slot)
      ELSE <<>>

RECURSIVE allSegmentWords(_)
allSegmentWords(segments) ==
  IF segments = <<>> THEN <<>>
  ELSE segmentWords(Head(segments)) \o allSegmentWords(Tail(segments))

\* Lines 166-199: a file that is missing or does not parse gives no words;
\* otherwise the words of all segments, sorted by start.
extractWords(json) ==
  IF ~json.parses THEN <<>> ELSE sortByStart(allSegmentWords(json.segments))

\* Segments the engine may report.
TextParts == {<<>>, <<"ola">>, <<"ola", "mundo">>}
SegmentSpans == {<<0, 600>>, <<500, 1100>>, <<400, 1000>>, <<0, 4>>}
TextSegments ==
  { Segment({sp[1]}, {sp[2]}, FALSE, <<>>, TRUE, parts) :
      sp \in SegmentSpans, parts \in TextParts }
  \cup { Segment({}, {}, FALSE, <<>>, TRUE, <<"ola", "mundo">>),
         Segment({0}, {600}, FALSE, <<>>, FALSE, <<>>) }
WordSegments ==
  { \* word-level timestamps, one word after the other
    Segment({0}, {1000}, TRUE,
            <<JsonWord({0}, {400}, "ola"), JsonWord({500}, {900}, "mundo")>>,
            TRUE, <<"ola", "mundo">>),
    \* out of order, and a word with an empty text
    Segment({0}, {1000}, TRUE,
            <<JsonWord({500}, {900}, "mundo"), JsonWord({450}, {450}, ""),
              JsonWord({0}, {400}, "ola")>>,
            TRUE, <<"mundo", "ola">>),
    \* starts only
    Segment({0}, {1000}, TRUE,
            <<JsonWord({0}, {}, "ola"), JsonWord({100}, {}, "mundo")>>,
            TRUE, <<"ola", "mundo">>),
    \* a words array without timestamps
    Segment({0}, {1000}, TRUE,
            <<JsonWord({}, {}, "ola"), JsonWord({}, {}, "mundo")>>,
            TRUE, <<"ola", "mundo">>),
    \* an empty words array beside a text
    Segment({0}, {1000}, TRUE, <<>>, TRUE, <<"ola", "mundo">>) }
EngineSegments == TextSegments \cup WordSegments

\* What JSON.parse makes of the engine's file: nothing usable, or an object
\* with segments.
EngineJsons ==
  {NoJson} \cup
  { [parses |-> TRUE, segments |-> segs] :
      segs \in UNION { [1..n -> EngineSegments] : n \in 0..MaxSegments } }

ExtractInit ==
  /\ SelIdle /\ SrtIdle /\ BuildIdle /\ InvIdle /\ EditIdle /\ RunsIdle /\ EnvIdle
  /\ extPc = "json"
  /\ extJson \in EngineJsons
  /\ extWords = <<>>

\* Lines 165-199 of transcribeWordsWhisperCpp
ExtractWords ==
  /\ extPc = "json"
  /\ extWords' = extractWords(extJson)
  /\ extPc' = "returned"
  /\ UNCHANGED extJson

ExtractNext ==
  ExtractWords /\ UNCHANGED <<selVars, srtVars, buildVars, invVars, editVars, fsVars, cutVars, pipeVars>>

SpecExtract == ExtractInit /\ [][ExtractNext]_vars

\* C23: the WordTiming list returned is ordered by non-decreasing start and
\* its words do not overlap: each word ends at or before the start of the
\* next one.
C23_WordsOrderedAndDisjoint ==
  extPc = "returned" =>
    \A i \in 1..Len(extWords) - 1 :
      /\ extWords[i].start <= extWords[i + 1].start
      /\ extWords[i].end <= extWords[i + 1].start

\* A segment with no word-level timestamps: no words array, or one whose
\* words carry neither start nor end.
NoWordTimestamps(seg) ==
  ~seg.hasWords
    \/ \A k \in 1..Len(seg.words) : seg.words[k].start = {} /\ seg.words[k].end = {}

\* The i-th of n words tiling s..e; the spans above are multiples of n.
TiledWord(s, e, n, i, text) ==
  Word(s + ((i - 1) * (e - s)) \div n, s + (i * (e - s)) \div n, text)

\* C24: for a single recognized segment s..e with e > s, a text of n >= 1
\* words and no word-level timestamps, exactly n WordTimings are returned,
\* in text order, the i-th spanning s + (i-1)(e-s)/n .. s + i(e-s)/n.
C24_SynthesizedWordsTileSegment ==
  (extPc = "returned" /\ extJson.parses /\ Len(extJson.segments) = 1) =>
    LET seg == extJson.segments[1]
        n == Len(seg.parts)
    IN  (/\ seg.start # {} /\ seg.end # {}
         /\ valueOr(seg.end, 0) > valueOr(seg.start, 0)
         /\ seg.hasText /\ n >= 1
         /\ NoWordTimestamps(seg)) =>
          extWords = [i \in 1..n |->
                        TiledWord(valueOr(seg.start, 0), valueOr(seg.end, 0),
                                  n, i, seg.parts[i])]

(***************************************************************************)
(* The awaited external processes: every execFileAsync call of the         *)
(* pipeline with the options it passes.  timeout is in milliseconds, 0     *)
(* when the call passes none (child_process then never kills the child).   *)
(***************************************************************************)
Call(site, tool, timeout) == [site |-> site, tool |-> tool, timeout |-> timeout]

Invocations ==
  { Call("gemini.ts:44 getVideoDurationFixed", "ffprobe", 0),
    Call("video-processor.ts:81 cutVideo", "ffmpeg", 300000),
    Call("video-processor.ts:154 addSubtitlesToVideo", "ffmpeg", 300000),
    Call("subtitles.ts:55 transcribeWithWhisperCpp", "ffmpeg", 300000),
    Call("subtitles.ts:78 transcribeWithWhisperCpp", "whisper", 900000),
    Call("subtitles.ts:147 transcribeWordsWhisperCpp", "ffmpeg", 300000),
    Call("subtitles.ts:157 transcribeWordsWhisperCpp", "whisper", 900000),
    Call("tts.ts:184 synthesizeWithPiper", "piper", 300000),
    Call("tts.ts:215 getAudioDuration", "ffprobe", 0),
    Call("ai-renderer.ts:44 getDuration", "ffprobe", 0),
    Call("ai-renderer.ts:109 renderAnimatedVideo", "ffmpeg", 600000) }

\* What the external tool does once started: it exits with status 0, it
\* exits with an error, or it never exits.
ToolBehaviours == {"exits-0", "exits-error", "never-exits"}

MsPerMinute == 60000

InvokeInit ==
  /\ SelIdle /\ SrtIdle /\ BuildIdle /\ ExtIdle /\ EditIdle /\ RunsIdle /\ EnvIdle
  /\ invPc = "idle"
  /\ invCall \in Invocations
  /\ invTool \in ToolBehaviours
  /\ invElapsed = 0

\* await execFileAsync(bin, args, options): the child is started.
StartProcess ==
  /\ invPc = "idle"
  /\ invPc' = "awaiting"
  /\ UNCHANGED <<invCall, invTool, invElapsed>>

\* A minute passes while the child runs and its timer, if any, has not
\* expired. Minutes beyond MaxElapsed are not counted: the longest timer is
\* 15 minutes, and a call without a timer reads no clock at all, so it goes
\* on waiting in the same state.
MinutePasses ==
  /\ invPc = "awaiting"
  /\ invElapsed < MaxElapsed
  /\ invCall.timeout = 0 \/ invElapsed * MsPerMinute < invCall.timeout
  /\ invElapsed' = invElapsed + 1
  /\ UNCHANGED <<invPc, invCall, invTool>>

\* The child exits: the promise resolves on status 0 and rejects otherwise.
ToolExits ==
  /\ invPc = "awaiting"
  /\ invTool # "never-exits"
  /\ invPc' = IF invTool = "exits-0" THEN "returned" ELSE "failed"
  /\ UNCHANGED <<invCall, invTool, invElapsed>>

\* options.timeout elapsed: the child is killed and the promise rejects.
TimeoutFires ==
  /\ invPc = "awaiting"
  /\ invCall.timeout > 0
  /\ invElapsed * MsPerMinute >= invCall.timeout
  /\ invPc' = "failed"
  /\ UNCHANGED <<invCall, invTool, invElapsed>>

InvokeNext ==
  \/ StartProcess /\ UNCHANGED <<selVars, srtVars, buildVars, extVars, editVars, fsVars, cutVars, pipeVars>>
  \/ MinutePasses /\ UNCHANGED <<selVars, srtVars, buildVars, extVars, editVars, fsVars, cutVars, pipeVars>>
  \/ ToolExits /\ UNCHANGED <<selVars, srtVars, buildVars, extVars, editVars, fsVars, cutVars, pipeVars>>
  \/ TimeoutFires /\ UNCHANGED <<selVars, srtVars, buildVars, extVars, editVars, fsVars, cutVars, pipeVars>>

\* The event loop runs every handler that is ready: time passes, exit
\* events and expired timers are delivered.
SpecInvoke ==
  /\ InvokeInit /\ [][InvokeNext]_vars
  /\ WF_invVars(StartProcess) /\ WF_invVars(MinutePasses)
  /\ WF_invVars(ToolExits) /\ WF_invVars(TimeoutFires)

\* C26: every external-process invocation of the pipeline is bounded by an
\* explicit timeout, so that every awaited call eventually returns or
\* fails, also when the tool never exits.
C26_EveryInvocationEnds ==
  (invPc = "awaiting") ~> (invPc \in {"returned", "failed"})

(***************************************************************************)
(* Stored segments: created from the analysis (routes, createVideoCut) and *)
(* edited by PUT /api/cuts/:cutId (server/routes.ts, storage.ts)           *)
(***************************************************************************)
\* What analyzeVideoForCuts may return for a video of MaxDuration seconds.
AnalysisCuts ==
  { c \in Proposals : isValidCut(c, MaxDuration) }
    \cup { fallbackCuts(MaxDuration)[i] : i \in 1..Len(fallbackCuts(MaxDuration)) }

\* req.body.startTime and req.body.endTime, in tenths of a second; the
\* empty set is undefined.
BodyTimes == {{}, {-5}, {0}, {455}, {950}, {2000}}
BodyDescriptions == {{}, {"edited"}}

\* Math.max(0, Math.floor(Number(x))) and Math.max(0, Math.ceil(Number(x)))
\* of x tenths of a second
normalizeStart(x) == Max(0, x \div 10)
normalizeEnd(x) == Max(0, -((-x) \div 10))

EditInit ==
  /\ SelIdle /\ SrtIdle /\ BuildIdle /\ ExtIdle /\ InvIdle /\ RunsIdle /\ EnvIdle
  /\ EditIdle

\* storage.createVideoCut({ videoId, startTime, endTime, description }) for
\* one cut of the analysis.
CreateVideoCut(id) ==
  /\ stored[id] = NoCut
  /\ \E c \in AnalysisCuts : stored' = [stored EXCEPT ![id] = c]
  /\ UNCHANGED editReply

\* PUT /api/cuts/:cutId, lines 861-895
UpdateVideoCut(id, startTime, endTime, description) ==
  LET both == startTime # {} /\ endTime # {}
      normalizedStart == IF startTime = {} THEN {}
                         ELSE {normalizeStart(valueOr(startTime, 0))}
      normalizedEnd == IF endTime = {} THEN {}
                       ELSE {normalizeEnd(valueOr(endTime, 0))}
      cut == stored[id]
  IN  IF both /\ (valueOr(normalizedStart, 0) < 0
                    \/ valueOr(normalizedEnd, 0) <= valueOr(normalizedStart, 0))
      THEN editReply' = 400 /\ UNCHANGED stored
      ELSE IF cut = NoCut
      THEN editReply' = 404 /\ UNCHANGED stored
      ELSE IF both /\ (valueOr(startTime, 0) < 0
                         \/ valueOr(endTime, 0) <= valueOr(startTime, 0))
      THEN editReply' = 400 /\ UNCHANGED stored
      ELSE /\ stored' = [stored EXCEPT ![id] =
                           [startTime |-> valueOr(normalizedStart, cut.startTime),
                            endTime |-> valueOr(normalizedEnd, cut.endTime),
                            description |-> valueOr(description, cut.description)]]
           /\ editReply' = 200

EditNext ==
  \/ \E id \in CutIds :
       CreateVideoCut(id)
         /\ UNCHANGED <<selVars, srtVars, buildVars, extVars, invVars, fsVars, cutVars, pipeVars>>
  \/ \E id \in CutIds, startTime \in BodyTimes, endTime \in BodyTimes,
        description \in BodyDescriptions :
       UpdateVideoCut(id, startTime, endTime, description)
         /\ UNCHANGED <<selVars, srtVars, buildVars, extVars, invVars, fsVars, cutVars, pipeVars>>

SpecEdit == EditInit /\ [][EditNext]_vars

\* C27: after any sequence of creations and edits every stored segment has
\* endTime > startTime.
C27_StoredSegmentsHavePositiveRange ==
  \A id \in CutIds :
    stored[id] # NoCut => stored[id].endTime > stored[id].startTime

\* C29: from the moment a burn-in with non-blank subtitles has started its
\* transcoder, the clip it was given or the output it writes exists on
\* disk; when it has failed, the clip it was given still exists.
C29_BurnInKeepsAVideo ==
  \A r \in Runs :
    (pc[r] \in {"burn-running", "burn-returned", "burn-threw", "done"}
       /\ subPath[r] # NoPath) =>
      /\ burnArgs[r].videoPath \in files \/ burnPath[r] \in files
      /\ pc[r] = "burn-threw" => burnArgs[r].videoPath \in files

\* C30: for a narration of any duration and one word or more, the lines of
\* the approximate builder are contiguous from time 0 (each starts where
\* the one before ended), and the last line ends, before its pad, no later
\* than the narration duration the video is generated with.
C30_ApproxLinesWithinNarration ==
  (buildPc = "built" /\ buildOut.builder = "buildApproxAss"
     /\ Len(buildIn.tokens) >= 1) =>
    LET lines == buildOut.lines
    IN  /\ Len(lines) >= 1
        /\ lines[1].start = 0
        /\ \A k \in 1..Len(lines) - 1 : lines[k + 1].start = lines[k].end
        /\ lines[Len(lines)].end <= buildIn.duration

====
